---- MODULE Spec2Model ----
(***************************************************************************)
(* A model of the chess rules engine fr_chess (Game, Board, Move, Piece):  *)
(* FEN parsing, pseudo-legal move generation, the attack oracle, the       *)
(* king-safety filter and apply_move, as state machines over a Game value. *)
(*                                                                         *)
(* Encoding.  A Rust &str is a sequence of one-character strings.          *)
(* Option<Piece> is a record with the fields of Piece; Option::None is the *)
(* record NoPiece.  Option<(usize, usize)> is <<>> for None and <<x, y>>   *)
(* for Some((x, y)).  A Vec<Move> is a sequence of move records whose      *)
(* field `type` is the enum variant.                                       *)
(***************************************************************************)
EXTENDS Integers, Sequences, FiniteSets, TLC

VARIABLES
    game,       \* the Game value the caller owns
    last,       \* the last call made on it: gen_all_moves or gen_moves with the
                \* Option returned, or apply_move with the move, the Game before
                \* the call and the Result
    ply,        \* number of apply_move calls made so far
    pc,         \* where the caller is; "panic" after an expect() has failed
    perft       \* the perft test running: test, root moves, loop index, amount

vars == <<game, last, ply, pc, perft>>

(***************************************************************************)
(* Piece, Color (piece.rs)                                                 *)
(***************************************************************************)
White == "White"
Black == "Black"

Pawn == "Pawn"
Knight == "Knight"
Bishop == "Bishop"
Rook == "Rook"
Queen == "Queen"
King == "King"

Piece(piece_type, color) == [piece_type |-> piece_type, color |-> color]

NoPiece == [piece_type |-> "None", color |-> "None"]

is_some(p) == p.piece_type # "None"

is_none(p) == p.piece_type = "None"

opposite(color) == IF color = White THEN Black ELSE White

\* TryFrom<char> for Piece: the letter decides the kind, its case the colour.
LowerOf(c) ==
    CASE c = "P" -> "p" [] c = "N" -> "n" [] c = "B" -> "b"
      [] c = "R" -> "r" [] c = "Q" -> "q" [] c = "K" -> "k"
      [] OTHER -> c

IsPieceChar(c) == LowerOf(c) \in {"p", "n", "b", "r", "q", "k"}

Piece_try_from(c) ==
    Piece(CASE LowerOf(c) = "p" -> Pawn
            [] LowerOf(c) = "n" -> Knight
            [] LowerOf(c) = "b" -> Bishop
            [] LowerOf(c) = "r" -> Rook
            [] LowerOf(c) = "q" -> Queen
            [] OTHER -> King,
          IF c \in {"P", "N", "B", "R", "Q", "K"} THEN White ELSE Black)

(***************************************************************************)
(* Board: 64 tiles, index = y * 8 + x (board/mod.rs, board.rs)             *)
(***************************************************************************)
EmptyTiles == [i \in 0..63 |-> NoPiece]

get_tile(tiles, x, y) == tiles[y * 8 + x]

set_tile(tiles, x, y, piece) == [tiles EXCEPT ![y * 8 + x] = piece]

remove_tile(tiles, x, y) == [tiles EXCEPT ![y * 8 + x] = NoPiece]

InRange(x, y) == x >= 0 /\ x <= 7 /\ y >= 0 /\ y <= 7

(***************************************************************************)
(* str::split                                                              *)
(***************************************************************************)
\* The parts of s between the separators, in order; the k-th separator is found
\* by counting the separators before it.
split(s, sep) ==
    LET seps == {i \in 1..Len(s) : s[i] = sep}
        n == Cardinality(seps)
        pos(k) == IF k = 0 THEN 0
                  ELSE IF k = n + 1 THEN Len(s) + 1
                  ELSE CHOOSE i \in seps : Cardinality({j \in seps : j < i}) = k - 1
    IN  [k \in 1..(n + 1) |-> SubSeq(s, pos(k - 1) + 1, pos(k) - 1)]

(***************************************************************************)
(* Board::from_fen: the piece-placement field                              *)
(***************************************************************************)
IsDigit(c) == c \in {"0", "1", "2", "3", "4", "5", "6", "7", "8", "9"}

DigitValue(c) ==
    CASE c = "0" -> 0 [] c = "1" -> 1 [] c = "2" -> 2 [] c = "3" -> 3
      [] c = "4" -> 4 [] c = "5" -> 5 [] c = "6" -> 6 [] c = "7" -> 7
      [] c = "8" -> 8 [] OTHER -> 9

\* One iteration of `for c in row.chars()`; st = [tiles, i, status].
board_fen_char(st, row_index, c) ==
    IF st.status # "Ok" THEN st
    ELSE IF st.i >= row_index * 8 + 8 THEN [st EXCEPT !.status = "TooManyTiles"]
    ELSE IF IsDigit(c) THEN [st EXCEPT !.i = st.i + DigitValue(c)]
    ELSE IF ~IsPieceChar(c) THEN [st EXCEPT !.status = "UnknownCharacterPiece"]
    ELSE IF st.i > 63 THEN [st EXCEPT !.status = "Panic"]
    ELSE [st EXCEPT !.tiles = [st.tiles EXCEPT ![st.i] = Piece_try_from(c)],
                    !.i = st.i + 1]

RECURSIVE board_fen_row(_, _, _, _)
board_fen_row(st, row_index, row, k) ==
    IF st.status # "Ok" \/ k > Len(row) THEN st
    ELSE board_fen_row(board_fen_char(st, row_index, row[k]), row_index, row, k + 1)

RECURSIVE board_fen_rows(_, _, _)
board_fen_rows(st, rows, r) ==
    IF st.status # "Ok" \/ r > Len(rows) THEN st
    ELSE board_fen_rows(board_fen_row(st, r - 1, rows[r], 1), rows, r + 1)

Board_from_fen(fen) ==
    LET st == board_fen_rows([tiles |-> EmptyTiles, i |-> 0, status |-> "Ok"],
                             split(fen, "/"), 1)
    IN  IF st.status # "Ok" THEN [status |-> st.status, tiles |-> EmptyTiles]
        ELSE IF st.i # 64 THEN [status |-> "TooManyTiles", tiles |-> EmptyTiles]
        ELSE [status |-> "Ok", tiles |-> st.tiles]

(***************************************************************************)
(* piece_placement_part (board/fen_parser.rs)                              *)
(***************************************************************************)
\* The body of `for c in row.chars()`
piece_placement_char(st, row_index, c) ==
    IF st.status # "Ok" THEN st
    ELSE IF st.i >= row_index * 8 + 8 THEN [st EXCEPT !.status = "IncorrectAmountOfTiles"]
    ELSE IF IsDigit(c) THEN [st EXCEPT !.i = st.i + DigitValue(c)]
    ELSE IF ~IsPieceChar(c) THEN [st EXCEPT !.status = "UnknownCharacter"]
    ELSE IF st.i > 63 THEN [st EXCEPT !.status = "Panic"]
    ELSE [st EXCEPT !.tiles = [st.tiles EXCEPT ![st.i] = Piece_try_from(c)],
                    !.i = st.i + 1]

RECURSIVE piece_placement_row(_, _, _, _)
piece_placement_row(st, row_index, row, k) ==
    IF st.status # "Ok" \/ k > Len(row) THEN st
    ELSE piece_placement_row(piece_placement_char(st, row_index, row[k]),
                             row_index, row, k + 1)

RECURSIVE piece_placement_rows(_, _, _)
piece_placement_rows(st, rows, r) ==
    IF st.status # "Ok" \/ r > Len(rows) THEN st
    ELSE piece_placement_rows(piece_placement_row(st, r - 1, rows[r], 1), rows, r + 1)

piece_placement_part(fen_part) ==
    LET rows == split(fen_part, "/")
        st == piece_placement_rows([tiles |-> EmptyTiles, i |-> 0, status |-> "Ok"],
                                   rows, 1)
    IN  IF Len(rows) # 8 THEN [status |-> "IncorrectAmountOfSlash", tiles |-> EmptyTiles]
        ELSE IF st.status # "Ok" THEN [status |-> st.status, tiles |-> EmptyTiles]
        ELSE IF st.i # 64 THEN [status |-> "IncorrectAmountOfTiles", tiles |-> EmptyTiles]
        ELSE [status |-> "Ok", tiles |-> st.tiles]

(***************************************************************************)
(* Game::from_fen (game/fen.rs)                                            *)
(***************************************************************************)
Range(s) == {s[i] : i \in 1..Len(s)}

castling_part(fen_part) ==
    IF fen_part = <<"-">> THEN [status |-> "Ok", castling |-> <<FALSE, FALSE, FALSE, FALSE>>]
    ELSE IF Len(fen_part) > 4
        THEN [status |-> "IncorrectLength", castling |-> <<>>]
    ELSE IF Len(fen_part) # Cardinality(Range(fen_part))
        THEN [status |-> "RepeatingCharactersInCastlingPart", castling |-> <<>>]
    ELSE IF \E i \in 1..Len(fen_part) : fen_part[i] \notin {"K", "Q", "k", "q"}
        THEN [status |-> "UnknownCharacter", castling |-> <<>>]
    ELSE [status |-> "Ok",
          castling |-> <<"K" \in Range(fen_part), "Q" \in Range(fen_part),
                         "k" \in Range(fen_part), "q" \in Range(fen_part)>>]

FileOf(c) ==
    CASE c = "a" -> 0 [] c = "b" -> 1 [] c = "c" -> 2 [] c = "d" -> 3
      [] c = "e" -> 4 [] c = "f" -> 5 [] c = "g" -> 6 [] OTHER -> 7

\* "i accidentally made the board uppside down": rank '1' is y = 7, rank '8' is y = 0.
RankOf(c) ==
    CASE c = "1" -> 7 [] c = "2" -> 6 [] c = "3" -> 5 [] c = "4" -> 4
      [] c = "5" -> 3 [] c = "6" -> 2 [] c = "7" -> 1 [] OTHER -> 0

en_passant(fen_part) ==
    IF fen_part = <<"-">> THEN [status |-> "Ok", square |-> <<>>]
    ELSE IF Len(fen_part) # 2 THEN [status |-> "IncorrectAmountOfTiles", square |-> <<>>]
    ELSE IF fen_part[1] \notin {"a", "b", "c", "d", "e", "f", "g", "h"}
        THEN [status |-> "UnknownCharacter", square |-> <<>>]
    ELSE IF fen_part[2] \notin {"1", "2", "3", "4", "5", "6", "7", "8"}
        THEN [status |-> "UnknownCharacter", square |-> <<>>]
    ELSE [status |-> "Ok", square |-> <<FileOf(fen_part[1]), RankOf(fen_part[2])>>]

MkGame(board, turn, ep, castling) ==
    [board |-> board, turn |-> turn, en_passant |-> ep,
     white_kingside_castle |-> castling[1],
     white_queenside_castle |-> castling[2],
     black_kingside_castle |-> castling[3],
     black_queenside_castle |-> castling[4]]

NoGame == MkGame(EmptyTiles, White, <<>>, <<FALSE, FALSE, FALSE, FALSE>>)

FenFail(status) == [status |-> status, game |-> NoGame]

\* The validation of the en-passant field, once board, turn and castling are parsed.
\* ep_y - 1 on usize 0 and get_tile with y = 8 both panic.
from_fen_en_passant(board, turn, castling, ep) ==
    IF ep = <<>> THEN [status |-> "Ok", game |-> MkGame(board, turn, <<>>, castling)]
    ELSE LET ep_x == ep[1]
             ep_y == IF turn = White THEN ep[2] + 1 ELSE ep[2] - 1
         IN  IF ~InRange(ep_x, ep_y) THEN FenFail("Panic")
             ELSE LET piece == get_tile(board, ep_x, ep_y)
                  IN  IF is_none(piece) \/ piece.piece_type # Pawn \/ piece.color = turn
                      THEN FenFail("InvalidEnPassant")
                      ELSE [status |-> "Ok",
                            game |-> MkGame(board, turn, <<ep_x, ep_y>>, castling)]

from_fen(fen) ==
    LET fen_parts == split(fen, " ")
    IN  IF Len(fen_parts) < 4 THEN FenFail("Panic")
        ELSE IF Len(fen_parts) # 4 THEN FenFail("IncorrectAmountOfParts")
        ELSE LET b == Board_from_fen(fen_parts[1])
                 c == castling_part(fen_parts[3])
                 e == en_passant(fen_parts[4])
             IN  IF b.status # "Ok" THEN FenFail(b.status)
                 ELSE IF fen_parts[2] \notin {<<"w">>, <<"b">>} THEN FenFail("UnknownTurn")
                 ELSE IF c.status # "Ok" THEN FenFail(c.status)
                 ELSE IF e.status # "Ok" THEN FenFail(e.status)
                 ELSE from_fen_en_passant(b.tiles,
                                          IF fen_parts[2] = <<"w">> THEN White ELSE Black,
                                          c.castling, e.square)

(***************************************************************************)
(* Move (mv.rs)                                                            *)
(***************************************************************************)
Quiet(from, to) == [type |-> "Quiet", from |-> from, to |-> to]

Capture(from, to, capture) ==
    [type |-> "Capture", from |-> from, to |-> to, capture |-> capture]

Castle(from, to, rook_from, rook_to) ==
    [type |-> "Castle", from |-> from, to |-> to,
     rook_from |-> rook_from, rook_to |-> rook_to]

QuietPromotion(from, to, promotion) ==
    [type |-> "QuietPromotion", from |-> from, to |-> to, promotion |-> promotion]

CapturePromotion(from, to, capture, promotion) ==
    [type |-> "CapturePromotion", from |-> from, to |-> to,
     capture |-> capture, promotion |-> promotion]

\* Move::is_double_pawn_push: a match on the variant DoublePawnPush alone
is_double_pawn_push(mv) == mv.type = "DoublePawnPush"

is_capture(mv) == mv.type \in {"Capture", "CapturePromotion"}

(***************************************************************************)
(* Game::apply_move (game/apply_move.rs)                                   *)
(***************************************************************************)
Abs(n) == IF n < 0 THEN -n ELSE n

\* revoke_king assigning each colour's flags from a comparison with the colour of
\* the king, which grants the other colour its rights again.
revoke_king_by_comparison(g, piece) ==
    IF piece.piece_type # King THEN g
    ELSE [g EXCEPT !.white_kingside_castle = piece.color # White,
                   !.white_queenside_castle = piece.color # White,
                   !.black_kingside_castle = piece.color # Black,
                   !.black_queenside_castle = piece.color # Black]

\* A king move revokes both rights of the king's colour.
revoke_king(g, piece) ==
    IF piece.piece_type # King THEN g
    ELSE IF piece.color = White
        THEN [g EXCEPT !.white_kingside_castle = FALSE, !.white_queenside_castle = FALSE]
        ELSE [g EXCEPT !.black_kingside_castle = FALSE, !.black_queenside_castle = FALSE]

\* revoke_corner without the revocation.
revoke_corner_missing(g, from) == g

\* Quiet: "No need to check that the move was actually a rook".
revoke_corner(g, from) ==
    IF from = <<0, 7>> THEN [g EXCEPT !.white_queenside_castle = FALSE]
    ELSE IF from = <<7, 7>> THEN [g EXCEPT !.white_kingside_castle = FALSE]
    ELSE IF from = <<0, 0>> THEN [g EXCEPT !.black_queenside_castle = FALSE]
    ELSE IF from = <<7, 0>> THEN [g EXCEPT !.black_kingside_castle = FALSE]
    ELSE g

\* A corner square of the colour `color`: the right that goes with it is revoked.
revoke_corner_of(g, color, sq) ==
    IF color = White
        THEN IF sq = <<0, 7>> THEN [g EXCEPT !.white_queenside_castle = FALSE]
             ELSE IF sq = <<7, 7>> THEN [g EXCEPT !.white_kingside_castle = FALSE]
             ELSE g
        ELSE IF sq = <<0, 0>> THEN [g EXCEPT !.black_queenside_castle = FALSE]
             ELSE IF sq = <<7, 0>> THEN [g EXCEPT !.black_kingside_castle = FALSE]
             ELSE g

\* Capture: a rook that leaves its own corner.
revoke_rook_from(g, piece, from) ==
    IF piece.piece_type = Rook THEN revoke_corner_of(g, piece.color, from) ELSE g

\* revoke_captured without the revocation.
revoke_captured_missing(g, capture) == g

\* Capture, CapturePromotion: a piece captured on a corner of its own colour.
revoke_captured(g, capture) ==
    LET capture_piece == get_tile(g.board, capture[1], capture[2])
    IN  IF is_some(capture_piece) THEN revoke_corner_of(g, capture_piece.color, capture)
        ELSE g

\* "Check en peasant possibility"
set_en_passant(g, piece, from, to) ==
    IF piece.piece_type = Pawn /\ Abs(from[2] - to[2]) = 2
        THEN [g EXCEPT !.en_passant = to]
        ELSE g

Done(g) == [status |-> "Ok", game |-> g]

Failed(g, error) == [status |-> error, game |-> g]

apply_quiet(g, from, to) ==
    LET piece == get_tile(g.board, from[1], from[2])
    IN  IF is_none(piece) THEN Failed(g, "InvalidMove")
        ELSE LET g1 == revoke_corner(revoke_king(set_en_passant(g, piece, from, to), piece),
                                     from)
             IN  Done([g1 EXCEPT !.board =
                          set_tile(remove_tile(g1.board, from[1], from[2]),
                                   to[1], to[2], piece)])

\* apply_capture without `self.board.remove_tile(capture.0, capture.1)`.
apply_capture_keeping_captured(g, from, to, capture) ==
    LET piece == get_tile(g.board, from[1], from[2])
    IN  IF is_none(piece) THEN Failed(g, "InvalidMove")
        ELSE LET g1 == revoke_captured(revoke_rook_from(revoke_king(g, piece), piece, from),
                                       capture)
             IN  Done([g1 EXCEPT !.board =
                          set_tile(remove_tile(g1.board, from[1], from[2]),
                                   to[1], to[2], piece)])

\* apply_capture rejecting a move whose capture square is empty.
apply_capture_needing_victim(g, from, to, capture) ==
    LET piece == get_tile(g.board, from[1], from[2])
    IN  IF is_none(piece) \/ is_none(get_tile(g.board, capture[1], capture[2]))
            THEN Failed(g, "InvalidMove")
        ELSE LET g1 == revoke_captured(revoke_rook_from(revoke_king(g, piece), piece, from),
                                       capture)
             IN  Done([g1 EXCEPT !.board =
                          set_tile(remove_tile(remove_tile(g1.board, capture[1], capture[2]),
                                               from[1], from[2]),
                                   to[1], to[2], piece)])

apply_capture(g, from, to, capture) ==
    LET piece == get_tile(g.board, from[1], from[2])
    IN  IF is_none(piece) THEN Failed(g, "InvalidMove")
        ELSE LET g1 == revoke_captured(revoke_rook_from(revoke_king(g, piece), piece, from),
                                       capture)
             IN  Done([g1 EXCEPT !.board =
                          set_tile(remove_tile(remove_tile(g1.board, capture[1], capture[2]),
                                               from[1], from[2]),
                                   to[1], to[2], piece)])

\* apply_castle revoking the rights of the king's colour before it looks for
\* the rook.
apply_castle_revoking_first(g, from, to, rook_from, rook_to) ==
    LET king_piece == get_tile(g.board, from[1], from[2])
        rook_piece == get_tile(g.board, rook_from[1], rook_from[2])
        g1 == IF king_piece.color = White
                 THEN [g EXCEPT !.white_kingside_castle = FALSE,
                                !.white_queenside_castle = FALSE]
                 ELSE [g EXCEPT !.black_kingside_castle = FALSE,
                                !.black_queenside_castle = FALSE]
    IN  IF is_none(king_piece) THEN Failed(g, "Debug1")
        ELSE IF is_none(rook_piece) THEN Failed(g1, "Debug0")
        ELSE LET b1 == remove_tile(remove_tile(g1.board, from[1], from[2]),
                                   rook_from[1], rook_from[2])
             IN  Done([g1 EXCEPT !.board =
                          set_tile(set_tile(b1, to[1], to[2], king_piece),
                                   rook_to[1], rook_to[2], rook_piece)])

\* apply_castle rejecting a move whose from square holds no king or whose
\* rook_from square holds no rook.
apply_castle_needing_king_and_rook(g, from, to, rook_from, rook_to) ==
    LET king_piece == get_tile(g.board, from[1], from[2])
        rook_piece == get_tile(g.board, rook_from[1], rook_from[2])
    IN  IF is_none(king_piece) \/ king_piece.piece_type # King THEN Failed(g, "Debug1")
        ELSE IF is_none(rook_piece) \/ rook_piece.piece_type # Rook THEN Failed(g, "Debug0")
        ELSE LET g1 == IF king_piece.color = White
                          THEN [g EXCEPT !.white_kingside_castle = FALSE,
                                         !.white_queenside_castle = FALSE]
                          ELSE [g EXCEPT !.black_kingside_castle = FALSE,
                                         !.black_queenside_castle = FALSE]
             IN  Done([g1 EXCEPT !.board =
                          set_tile(set_tile(remove_tile(remove_tile(g1.board,
                                                                    from[1], from[2]),
                                                        rook_from[1], rook_from[2]),
                                            to[1], to[2], king_piece),
                                   rook_to[1], rook_to[2], rook_piece)])

apply_castle(g, from, to, rook_from, rook_to) ==
    LET king_piece == get_tile(g.board, from[1], from[2])
        rook_piece == get_tile(g.board, rook_from[1], rook_from[2])
    IN  IF is_none(king_piece) THEN Failed(g, "Debug1")
        ELSE IF is_none(rook_piece) THEN Failed(g, "Debug0")
        ELSE LET g1 == IF king_piece.color = White
                          THEN [g EXCEPT !.white_kingside_castle = FALSE,
                                         !.white_queenside_castle = FALSE]
                          ELSE [g EXCEPT !.black_kingside_castle = FALSE,
                                         !.black_queenside_castle = FALSE]
                 b1 == remove_tile(remove_tile(g1.board, from[1], from[2]),
                                   rook_from[1], rook_from[2])
             IN  Done([g1 EXCEPT !.board =
                          set_tile(set_tile(b1, to[1], to[2], king_piece),
                                   rook_to[1], rook_to[2], rook_piece)])

apply_quiet_promotion(g, from, to, promotion) ==
    LET piece == get_tile(g.board, from[1], from[2])
    IN  IF is_none(piece) THEN Failed(g, "InvalidMove")
        ELSE Done([g EXCEPT !.board =
                      set_tile(remove_tile(g.board, from[1], from[2]),
                               to[1], to[2], Piece(promotion, piece.color))])

apply_capture_promotion(g, from, to, capture, promotion) ==
    LET piece == get_tile(g.board, from[1], from[2])
    IN  IF is_none(piece) THEN Failed(g, "InvalidMove")
        ELSE LET g1 == revoke_captured(g, capture)
             IN  Done([g1 EXCEPT !.board =
                          set_tile(remove_tile(remove_tile(g1.board, from[1], from[2]),
                                               capture[1], capture[2]),
                                   to[1], to[2], Piece(promotion, piece.color))])

\* `match mv { ... }`
apply_match(g, mv) ==
    CASE mv.type = "Quiet" -> apply_quiet(g, mv.from, mv.to)
      [] mv.type = "Capture" -> apply_capture(g, mv.from, mv.to, mv.capture)
      [] mv.type = "Castle" -> apply_castle(g, mv.from, mv.to, mv.rook_from, mv.rook_to)
      [] mv.type = "QuietPromotion" ->
            apply_quiet_promotion(g, mv.from, mv.to, mv.promotion)
      [] OTHER -> apply_capture_promotion(g, mv.from, mv.to, mv.capture, mv.promotion)

\* flip_turn without the assignment to self.turn.
flip_turn_missing(g) == g

\* `self.turn = self.turn.opposite()`
flip_turn(g) == [g EXCEPT !.turn = opposite(g.turn)]

\* clear_en_passant without the assignment to self.en_passant.
clear_en_passant_missing(g) == g

\* `self.en_passant = None`
clear_en_passant(g) == [g EXCEPT !.en_passant = <<>>]

\* The game in the result is *self after the call, also when the call fails.
apply_move(g, mv) ==
    LET r == apply_match(clear_en_passant(g), mv)
    IN  IF r.status = "Ok" THEN Done(flip_turn(r.game)) ELSE r

(***************************************************************************)
(* gen_pseudo_legal_moves (game/gen_pseudo_legal_moves.rs)                 *)
(***************************************************************************)
ROOK_DIRS == << <<1, 0>>, <<-1, 0>>, <<0, 1>>, <<0, -1>> >>

BISHOP_DIRS == << <<1, 1>>, <<-1, 1>>, <<1, -1>>, <<-1, -1>> >>

KING_QUEEN_DIRS ==
    << <<1, 0>>, <<-1, 0>>, <<0, 1>>, <<0, -1>>,
       <<1, 1>>, <<-1, 1>>, <<1, -1>>, <<-1, -1>> >>

KNIGHT_DIRS ==
    << <<2, 1>>, <<2, -1>>, <<-2, 1>>, <<-2, -1>>,
       <<1, 2>>, <<1, -2>>, <<-1, 2>>, <<-1, -2>> >>

OutSearch(depth, dirs, quiet, captures) ==
    [depth |-> depth, dirs |-> dirs, quiet |-> quiet, captures |-> captures]

ROOK_OUT_SEARCH == OutSearch(8, ROOK_DIRS, TRUE, TRUE)

BISHOP_OUT_SEARCH == OutSearch(8, BISHOP_DIRS, TRUE, TRUE)

QUEEN_OUT_SEARCH == OutSearch(8, KING_QUEEN_DIRS, TRUE, TRUE)

KNIGHT_OUT_SEARCH == OutSearch(1, KNIGHT_DIRS, TRUE, TRUE)

KING_OUT_SEARCH == OutSearch(1, KING_QUEEN_DIRS, TRUE, TRUE)

search_of(piece_type) ==
    CASE piece_type = Rook -> ROOK_OUT_SEARCH
      [] piece_type = Bishop -> BISHOP_OUT_SEARCH
      [] piece_type = Queen -> QUEEN_OUT_SEARCH
      [] piece_type = Knight -> KNIGHT_OUT_SEARCH
      [] OTHER -> KING_OUT_SEARCH

promotion_pieces == <<Queen, Rook, Bishop, Knight>>

\* final_rank with the ranks of the two colours exchanged.
final_rank_exchanged(color) == IF color = White THEN 7 ELSE 0

final_rank(color) == IF color = White THEN 0 ELSE 7

\* pawn_dir with the directions of the two colours exchanged.
pawn_dir_exchanged(color) == IF color = White THEN 1 ELSE -1

pawn_dir(color) == IF color = White THEN -1 ELSE 1

\* starting_rank with the ranks of the two colours exchanged.
starting_rank_exchanged(color) == IF color = White THEN 1 ELSE 6

starting_rank(color) == IF color = White THEN 6 ELSE 1

\* "Regular move forwards"
pawn_forward(g, x, y, piece) ==
    LET c_y == y + pawn_dir(piece.color)
    IN  IF ~(c_y >= 0 /\ c_y <= 7) THEN <<>>
        ELSE IF is_some(get_tile(g.board, x, c_y)) THEN <<>>
        ELSE IF c_y = final_rank(piece.color)
            THEN [k \in 1..4 |-> QuietPromotion(<<x, y>>, <<x, c_y>>, promotion_pieces[k])]
            ELSE <<Quiet(<<x, y>>, <<x, c_y>>)>>

\* pawn_double without the test of oc_piece_close.
pawn_double_over_piece(g, x, y, piece) ==
    LET c_y == y + pawn_dir(piece.color) * 2
    IN  IF ~((c_y >= 0 /\ c_y <= 7) /\ y = starting_rank(piece.color)) THEN <<>>
        ELSE IF is_none(get_tile(g.board, x, c_y))
            THEN <<Quiet(<<x, y>>, <<x, c_y>>)>>
            ELSE <<>>

\* "Double forwards"
pawn_double(g, x, y, piece) ==
    LET c_y == y + pawn_dir(piece.color) * 2
    IN  IF ~((c_y >= 0 /\ c_y <= 7) /\ y = starting_rank(piece.color)) THEN <<>>
        ELSE IF is_none(get_tile(g.board, x, c_y))
                /\ is_none(get_tile(g.board, x, c_y - pawn_dir(piece.color)))
            THEN <<Quiet(<<x, y>>, <<x, c_y>>)>>
            ELSE <<>>

\* "Capture", one iteration of `for x_dir in [-1, 1]`
pawn_capture(g, x, y, piece, x_dir) ==
    LET c_x == x + x_dir
        c_y == y + pawn_dir(piece.color)
    IN  IF ~InRange(c_x, c_y) THEN <<>>
        ELSE LET oc_piece == get_tile(g.board, c_x, c_y)
             IN  IF ~(is_some(oc_piece) /\ oc_piece.color # piece.color) THEN <<>>
                 ELSE IF c_y = final_rank(piece.color)
                     THEN [k \in 1..4 |->
                              CapturePromotion(<<x, y>>, <<c_x, c_y>>, <<c_x, c_y>>,
                                               promotion_pieces[k])]
                     ELSE <<Capture(<<x, y>>, <<c_x, c_y>>, <<c_x, c_y>>)>>

\* pawn_en_passant naming the destination square as the capture square.
pawn_en_passant_capturing_on_to(g, x, y, piece, x_dir) ==
    LET c_x == x + x_dir
        c_y == y + pawn_dir(piece.color)
    IN  IF g.en_passant = <<>> THEN <<>>
        ELSE IF ~InRange(c_x, c_y) THEN <<>>
        ELSE IF <<c_x, y>> = g.en_passant
            THEN <<Capture(<<x, y>>, <<c_x, c_y>>, <<c_x, c_y>>)>>
            ELSE <<>>

\* "En passant", one iteration of `for x_dir in [-1, 1]`
pawn_en_passant(g, x, y, piece, x_dir) ==
    LET c_x == x + x_dir
        c_y == y + pawn_dir(piece.color)
    IN  IF g.en_passant = <<>> THEN <<>>
        ELSE IF ~InRange(c_x, c_y) THEN <<>>
        ELSE IF <<c_x, y>> = g.en_passant
            THEN <<Capture(<<x, y>>, <<c_x, c_y>>, g.en_passant)>>
            ELSE <<>>

pawn_moves(g, x, y, piece) ==
    pawn_forward(g, x, y, piece) \o pawn_double(g, x, y, piece)
        \o pawn_capture(g, x, y, piece, -1) \o pawn_capture(g, x, y, piece, 1)
        \o pawn_en_passant(g, x, y, piece, -1) \o pawn_en_passant(g, x, y, piece, 1)

\* search_out without the `break` at an occupied square.
RECURSIVE search_out_jumping(_, _, _, _, _, _, _)
search_out_jumping(g, x, y, piece, search, dir, i) ==
    IF i > search.depth THEN <<>>
    ELSE LET c_x == dir[1] * i + x
             c_y == dir[2] * i + y
         IN  IF c_x < 0 \/ c_x > 7 \/ c_y < 0 \/ c_y > 7 THEN <<>>
             ELSE LET oc_piece == get_tile(g.board, c_x, c_y)
                  IN  (IF is_some(oc_piece)
                       THEN IF oc_piece.color # piece.color /\ search.captures
                            THEN <<Capture(<<x, y>>, <<c_x, c_y>>, <<c_x, c_y>>)>>
                            ELSE <<>>
                       ELSE IF search.quiet THEN <<Quiet(<<x, y>>, <<c_x, c_y>>)>>
                            ELSE <<>>)
                      \o search_out_jumping(g, x, y, piece, search, dir, i + 1)

\* `for i in 1..=search.depth` along one direction, from step i on
RECURSIVE search_out(_, _, _, _, _, _, _)
search_out(g, x, y, piece, search, dir, i) ==
    IF i > search.depth THEN <<>>
    ELSE LET c_x == dir[1] * i + x
             c_y == dir[2] * i + y
         IN  IF c_x < 0 \/ c_x > 7 \/ c_y < 0 \/ c_y > 7 THEN <<>>
             ELSE LET oc_piece == get_tile(g.board, c_x, c_y)
                  IN  IF is_some(oc_piece)
                      THEN IF oc_piece.color # piece.color /\ search.captures
                           THEN <<Capture(<<x, y>>, <<c_x, c_y>>, <<c_x, c_y>>)>>
                           ELSE <<>>
                      ELSE (IF search.quiet THEN <<Quiet(<<x, y>>, <<c_x, c_y>>)>>
                            ELSE <<>>)
                           \o search_out(g, x, y, piece, search, dir, i + 1)

\* `for dir in search.dirs`, from the d-th direction on
RECURSIVE search_dirs(_, _, _, _, _, _)
search_dirs(g, x, y, piece, search, d) ==
    IF d > Len(search.dirs) THEN <<>>
    ELSE search_out(g, x, y, piece, search, search.dirs[d], 1)
             \o search_dirs(g, x, y, piece, search, d + 1)

\* (non attacked positions, empty positions, king end position, rook start
\* position, rook end position)
queen_side_tiles == << <<4, 3, 2>>, <<1, 2, 3>>, 2, 0, 3 >>

\* king_side_tiles with the rook start position one file beyond the board.
king_side_tiles_beyond_h == << <<4, 5, 6>>, <<5, 6>>, 6, 8, 5 >>

king_side_tiles == << <<4, 5, 6>>, <<5, 6>>, 6, 7, 5 >>

castle_rank(color) == IF color = White THEN 7 ELSE 0

kingside_castle(g, color) ==
    IF color = White THEN g.white_kingside_castle ELSE g.black_kingside_castle

queenside_castle(g, color) ==
    IF color = White THEN g.white_queenside_castle ELSE g.black_queenside_castle

RECURSIVE gen_pseudo_legal_moves(_, _, _, _)

\* The dummy board: a pawn of the other colour stands in for an empty target.
\* dummy_board without the pawn set on an empty tile.
dummy_board_without_pawn(g, x, y, color) == g

dummy_board(g, x, y, color) ==
    IF is_some(get_tile(g.board, x, y)) THEN g
    ELSE [g EXCEPT !.board = set_tile(g.board, x, y, Piece(Pawn, opposite(color)))]

\* The closure of `.any(...)` in tile_under_attack, over the moves of one piece
captures_at(moves, x, y) ==
    \E k \in 1..Len(moves) : is_capture(moves[k]) /\ moves[k].capture = <<x, y>>

\* The iterator chain over dummy_board.board.tiles
attacked_on(dummy, x, y, color) ==
    \E i \in 0..63 :
        /\ is_some(dummy.board[i])
        /\ dummy.board[i].color = color
        /\ captures_at(gen_pseudo_legal_moves(dummy, i % 8, i \div 8, TRUE).moves, x, y)

\* tile_under_attack finding no tile attacked.
tile_under_attack_never(g, x, y, color) == FALSE

tile_under_attack(g, x, y, color) ==
    IF is_some(get_tile(g.board, x, y)) /\ get_tile(g.board, x, y).color = color THEN FALSE
    ELSE attacked_on(dummy_board(g, x, y, color), x, y, color)

\* One entry of check_data
castle_move(g, color, data) ==
    IF /\ \A k \in 1..Len(data[2]) :
             is_none(get_tile(g.board, data[2][k], castle_rank(color)))
       /\ \A k \in 1..Len(data[1]) :
             ~tile_under_attack(g, data[1][k], castle_rank(color), opposite(color))
    THEN <<Castle(<<4, castle_rank(color)>>, <<data[3], castle_rank(color)>>,
                  <<data[4], castle_rank(color)>>, <<data[5], castle_rank(color)>>)>>
    ELSE <<>>

\* "Castling": check_data holds the kingside entry first, then the queenside entry
castle_moves(g, piece, skip_castle) ==
    IF ~(piece.piece_type = King /\ ~skip_castle) THEN <<>>
    ELSE (IF kingside_castle(g, piece.color)
          THEN castle_move(g, piece.color, king_side_tiles) ELSE <<>>)
         \o (IF queenside_castle(g, piece.color)
             THEN castle_move(g, piece.color, queen_side_tiles) ELSE <<>>)

\* Option<Vec<Move>>
None == [is_some |-> FALSE, moves |-> <<>>]

Some(moves) == [is_some |-> TRUE, moves |-> moves]

\* The moves pushed before the "Castling" block
piece_moves(g, x, y, piece) ==
    IF piece.piece_type = Pawn THEN pawn_moves(g, x, y, piece)
    ELSE search_dirs(g, x, y, piece, search_of(piece.piece_type), 1)

gen_pseudo_legal_moves(g, x, y, skip_castle) ==
    IF is_none(get_tile(g.board, x, y)) THEN None
    ELSE Some(piece_moves(g, x, y, get_tile(g.board, x, y))
                  \o castle_moves(g, get_tile(g.board, x, y), skip_castle))

(***************************************************************************)
(* Game: can_capture_king, is_check, gen_moves, gen_all_moves (game/mod.rs)*)
(***************************************************************************)
\* Game::gen_pseudo_legal_moves(x, y): the generator with skip_castle = false
game_gen_pseudo_legal_moves(g, x, y) == gen_pseudo_legal_moves(g, x, y, FALSE)

\* The closure of `.any(...)`: a capture whose capture square holds a king.
\* (get_tile(..).unwrap(): the capture square of a generated capture holds a piece.)
captures_king(g, m) ==
    is_capture(m) /\ get_tile(g.board, m.capture[1], m.capture[2]).piece_type = King

\* any_captures_king finding no capture of a king.
any_captures_king_never(g, moves) == FALSE

any_captures_king(g, moves) == \E k \in 1..Len(moves) : captures_king(g, moves[k])

can_capture_king(g, color) ==
    \E i \in 0..63 :
        /\ is_some(g.board[i])
        /\ g.board[i].color = color
        /\ any_captures_king(g, game_gen_pseudo_legal_moves(g, i % 8, i \div 8).moves)

\* can_capture_king evaluated without the "Castling" block of the generator: the
\* block pushes Castle moves only, which the closure of `.any(...)` maps to false,
\* so the value is that of can_capture_king (LeanAgrees states it).  The perft
\* harness, which asks this question for every move of every node, uses it.
can_capture_king_lean(g, color) ==
    \E i \in 0..63 :
        /\ is_some(g.board[i])
        /\ g.board[i].color = color
        /\ any_captures_king(g, gen_pseudo_legal_moves(g, i % 8, i \div 8, TRUE).moves)

king_capturable(g, color, lean) ==
    IF lean THEN can_capture_king_lean(g, color) ELSE can_capture_king(g, color)

is_check(g) == can_capture_king(g, opposite(g.turn))

Panic == [is_some |-> FALSE, moves |-> <<>>, panic |-> TRUE]

panicked(r) == "panic" \in DOMAIN r

\* `let mut game = self.clone(); game.apply_move(*m)` for every pseudo-legal move
applied_moves(g, pseudo) ==
    [k \in 1..Len(pseudo) |-> [mv |-> pseudo[k], result |-> apply_move(g, pseudo[k])]]

\* keeps_king_safe asking about the other colour: the test of is_check in place
\* of the test of gen_moves.
keeps_king_safe_of_opponent(a, lean) ==
    ~king_capturable(a.result.game, opposite(a.result.game.turn), lean)

\* `!game.can_capture_king(game.turn)` on the clone the move was applied to
keeps_king_safe(a, lean) == ~king_capturable(a.result.game, a.result.game.turn, lean)

moves_of(applied) == [k \in 1..Len(applied) |-> applied[k].mv]

some_or_none(moves) == IF Len(moves) = 0 THEN None ELSE Some(moves)

\* filter_moves without the `.filter(...)`: every pseudo-legal move is returned.
filter_moves_keeping_all(applied, lean) ==
    IF \E k \in 1..Len(applied) : applied[k].result.status # "Ok" THEN Panic
    ELSE some_or_none(moves_of(applied))

\* `.filter(...)`; .expect("gen_pseudo_legal_moves only returns valid moves") panics
\* on the first move that does not apply
filter_moves(applied, lean) ==
    IF \E k \in 1..Len(applied) : applied[k].result.status # "Ok" THEN Panic
    ELSE some_or_none(moves_of(SelectSeq(applied, LAMBDA a : keeps_king_safe(a, lean))))

gen_moves_by(g, x, y, lean) ==
    IF is_none(get_tile(g.board, x, y)) \/ get_tile(g.board, x, y).color # g.turn THEN None
    ELSE filter_moves(applied_moves(g, game_gen_pseudo_legal_moves(g, x, y).moves), lean)

gen_moves(g, x, y) == gen_moves_by(g, x, y, FALSE)

\* `(0..64).map(|i| (i % 8, i / 8)).map(|(x, y)| self.gen_moves(x, y))`
tile_moves(g, lean) == [i \in 0..63 |-> gen_moves_by(g, i % 8, i \div 8, lean)]

\* `.flatten()` of the tiles lo..hi, split in halves to keep the evaluation shallow
RECURSIVE flatten(_, _, _)
flatten(per_tile, lo, hi) ==
    IF lo = hi THEN per_tile[lo].moves
    ELSE flatten(per_tile, lo, (lo + hi) \div 2) \o flatten(per_tile, (lo + hi) \div 2 + 1, hi)

collect_moves(per_tile) ==
    IF \E i \in DOMAIN per_tile : panicked(per_tile[i]) THEN Panic
    ELSE some_or_none(flatten(per_tile, 0, 63))

gen_all_moves_by(g, lean) == collect_moves(tile_moves(g, lean))

gen_all_moves(g) == gen_all_moves_by(g, FALSE)

is_checkmate(g) == is_check(g) /\ ~gen_all_moves(g).is_some

\* is_stalemate without the test of is_check.
is_stalemate_without_check(g) == ~gen_all_moves(g).is_some

is_stalemate(g) == ~is_check(g) /\ ~gen_all_moves(g).is_some

\* Game::start_pos: "rnbqkbnr/pppppppp/8/8/8/8/PPPPPPPP/RNBQKBNR w KQkq -"
StartFen ==
    <<"r","n","b","q","k","b","n","r","/","p","p","p","p","p","p","p","p","/",
      "8","/","8","/","8","/","8","/",
      "P","P","P","P","P","P","P","P","/","R","N","B","Q","K","B","N","R",
      " ","w"," ","K","Q","k","q"," ","-">>

start_pos == from_fen(StartFen).game

(***************************************************************************)
(* The perft harness (lib.rs tests, main.rs)                               *)
(***************************************************************************)
\* "8/2p5/3p4/KP5r/1R3p1k/8/4P1P1/8 w - -"
PerftFen1 ==
    <<"8","/","2","p","5","/","3","p","4","/","K","P","5","r","/","1","R","3",
      "p","1","k","/","8","/","4","P","1","P","1","/","8"," ","w"," ","-"," ",
      "-">>

\* "r3k2r/Pppp1ppp/1b3nbN/nP6/BBP1P3/q4N2/Pp1P2PP/R2Q1RK1 w kq -"
PerftFen2 ==
    <<"r","3","k","2","r","/","P","p","p","p","1","p","p","p","/","1","b","3",
      "n","b","N","/","n","P","6","/","B","B","P","1","P","3","/","q","4","N",
      "2","/","P","p","1","P","2","P","P","/","R","2","Q","1","R","K","1"," ",
      "w"," ","k","q"," ","-">>

\* "r3k2r/p1ppqpb1/bn2pnp1/3PN3/1p2P3/2N2Q1p/PPPBBPPP/R3K2R w KQkq -"
PerftFen3 ==
    <<"r","3","k","2","r","/","p","1","p","p","q","p","b","1","/","b","n","2",
      "p","n","p","1","/","3","P","N","3","/","1","p","2","P","3","/","2","N",
      "2","Q","1","p","/","P","P","P","B","B","P","P","P","/","R","3","K","2",
      "R"," ","w"," ","K","Q","k","q"," ","-">>

\* "rnbq1k1r/pp1Pbppp/2p5/8/2B5/8/PPP1NnPP/RNBQK2R w KQ -"
PerftFen6 ==
    <<"r","n","b","q","1","k","1","r","/","p","p","1","P","b","p","p","p","/",
      "2","p","5","/","8","/","2","B","5","/","8","/","P","P","P","1","N","n",
      "P","P","/","R","N","B","Q","K","2","R"," ","w"," ","K","Q"," ","-">>

\* The perft tests: position, depth and the amount asserted.
PerftDepth == 3

PerftTests ==
    << [fen |-> PerftFen1, amount |-> 2812],
       [fen |-> PerftFen2, amount |-> 9467],
       [fen |-> PerftFen3, amount |-> 97862],
       [fen |-> PerftFen6, amount |-> 62379] >>

unwrap_or_empty(r) == IF r.is_some THEN r.moves ELSE <<>>

RECURSIVE amount_of_moves_recursively(_, _)

\* `amount += amount_of_moves_recursively(game, depth - 1)` over the moves lo..hi of ms;
\* the sum is split in halves to keep the evaluation shallow.
RECURSIVE amount_over(_, _, _, _, _)
amount_over(g, ms, depth, lo, hi) ==
    IF lo > hi THEN 0
    ELSE IF lo = hi
        THEN amount_of_moves_recursively(apply_move(g, ms[lo]).game, depth - 1)
    ELSE amount_over(g, ms, depth, lo, (lo + hi) \div 2)
             + amount_over(g, ms, depth, (lo + hi) \div 2 + 1, hi)

amount_of_all(g, ms, depth) == amount_over(g, ms, depth, 1, Len(ms))

\* gen_all_moves is evaluated with can_capture_king_lean in the filter of
\* gen_moves; by LeanAgrees the vector is that of gen_all_moves.
amount_of_moves_recursively(g, depth) ==
    IF depth = 0 THEN 1
    ELSE amount_of_all(g, unwrap_or_empty(gen_all_moves_by(g, TRUE)), depth)

(***************************************************************************)
(* Bounds of the model                                                     *)
(***************************************************************************)
\* Number of moves a client plays from an initial position
MaxPly == 2

\* Number of apply_move calls a client makes with moves of its own making
MaxCalls == 2

(***************************************************************************)
(* A client playing generated moves: gen_all_moves / gen_moves, apply_move *)
(***************************************************************************)
\* "4k3/8/8/8/8/8/8/4K3 w K -": a castling right without its rook
UncastlableFen ==
    <<"4","k","3","/","8","/","8","/","8","/","8","/","8","/","8","/","4","K",
      "3"," ","w"," ","K"," ","-">>

\* "r3k3/1P6/8/8/8/8/8/4K2R w Kq -": castling, promotion, capture of a corner rook
CastleFen ==
    <<"r","3","k","3","/","1","P","6","/","8","/","8","/","8","/","8","/","8",
      "/","4","K","2","R"," ","w"," ","K","q"," ","-">>

\* "7k/5Q2/6K1/8/8/8/8/8 w - -": checkmate and stalemate are one move away
MateFen ==
    <<"7","k","/","5","Q","2","/","6","K","1","/","8","/","8","/","8","/","8",
      "/","8"," ","w"," ","-"," ","-">>

\* "4k3/8/8/3pP3/6p1/8/7P/4K3 w - d6": the black pawn on d5 has just moved two ranks;
\* the white pawn on h2 can do so next to the black pawn on g4
EnPassantFen ==
    <<"4","k","3","/","8","/","8","/","3","p","P","3","/","6","p","1","/","8",
      "/","7","P","/","4","K","3"," ","w"," ","-"," ","d","6">>

\* "4kr2/8/8/8/8/8/p7/1N2K2R w K -": f1 is attacked by the rook on f8; a black pawn is about to promote
AttackedCastleFen ==
    <<"4","k","r","2","/","8","/","8","/","8","/","8","/","8","/","p","7","/",
      "1","N","2","K","2","R"," ","w"," ","K"," ","-">>

\* "k7/8/8/8/8/8/8/3KQ2R w K -": the right K with a queen, not the king, on e1
QueenCastleFen ==
    <<"k","7","/","8","/","8","/","8","/","8","/","8","/","8","/","3","K","Q",
      "2","R"," ","w"," ","K"," ","-">>

NoLast == [op |-> "none"]

NoPerft == [test |-> 0]

\* The positions the client starts from, each built by Game::from_fen
Init ==
    /\ \E fen \in {StartFen, PerftFen1, UncastlableFen, CastleFen, MateFen,
                   EnPassantFen, AttackedCastleFen, QueenCastleFen} :
           from_fen(fen).status = "Ok" /\ game = from_fen(fen).game
    /\ last = NoLast
    /\ ply = 0
    /\ pc = "idle"
    /\ perft = NoPerft

\* let moves = game.gen_all_moves();
GenAllMoves ==
    /\ pc = "idle"
    /\ ply < MaxPly
    /\ last' = [op |-> "gen_all_moves", result |-> gen_all_moves(game)]
    /\ pc' = IF panicked(last'.result) THEN "panic" ELSE "generated"
    /\ UNCHANGED <<game, ply, perft>>

\* let moves = game.gen_moves(x, y);
GenMoves(x, y) ==
    /\ pc = "idle"
    /\ ply < MaxPly
    /\ last' = [op |-> "gen_moves", at |-> <<x, y>>, result |-> gen_moves(game, x, y)]
    /\ pc' = IF panicked(last'.result) THEN "panic" ELSE "generated"
    /\ UNCHANGED <<game, ply, perft>>

\* game.apply_move(moves[k]) for a move of the vector just returned
ApplyGenerated ==
    /\ pc = "generated"
    /\ \E k \in 1..Len(last.result.moves) :
        /\ game' = apply_move(game, last.result.moves[k]).game
        /\ last' = [op |-> "apply_move", mv |-> last.result.moves[k], before |-> game,
                    status |-> apply_move(game, last.result.moves[k]).status]
    /\ ply' = ply + 1
    /\ pc' = "idle"
    /\ UNCHANGED perft

\* "Start by checking is_checkmate and is_stalemate to see if the game has ended":
\* one of the two calls reaches gen_all_moves, whose expect() may panic
CheckEnded ==
    /\ pc = "idle"
    /\ ply < MaxPly
    /\ last' = IF panicked(gen_all_moves(game)) THEN [op |-> "ended"]
               ELSE [op |-> "ended", checkmate |-> is_checkmate(game),
                     stalemate |-> is_stalemate(game)]
    /\ pc' = IF panicked(gen_all_moves(game)) THEN "panic" ELSE "checked"
    /\ UNCHANGED <<game, ply, perft>>

Next ==
    \/ GenAllMoves
    \/ \E x \in 0..7, y \in 0..7 : GenMoves(x, y)
    \/ ApplyGenerated
    \/ CheckEnded

Spec == Init /\ [][Next]_vars

\* The two evaluations of can_capture_king agree on every position of a game
\* and for both colours.
LeanAgrees ==
    \A color \in {White, Black} :
        can_capture_king_lean(game, color) = can_capture_king(game, color)

(***************************************************************************)
(* Properties of the client playing generated moves                        *)
(***************************************************************************)
\* C1: every move returned by gen_moves or gen_all_moves applies, and in the
\* position it yields the side now to move cannot capture a king:
\* can_capture_king(new_position.turn) is false.
C1_GeneratedMovesAreLegal ==
    pc = "generated" =>
        \A k \in 1..Len(last.result.moves) :
            /\ apply_move(game, last.result.moves[k]).status = "Ok"
            /\ ~can_capture_king(apply_move(game, last.result.moves[k]).game,
                                 apply_move(game, last.result.moves[k]).game.turn)

\* gen_moves returned moves for a square and dropped at least one pseudo-legal
\* move of that square.
C1_Witness ==
    /\ pc = "generated"
    /\ last.op = "gen_moves"
    /\ last.result.is_some
    /\ Len(last.result.moves)
         < Len(game_gen_pseudo_legal_moves(game, last.at[1], last.at[2]).moves)

\* C2 as written: after each application of a generated move,
\* can_capture_king(turn.opposite()) is false on the resulting position, turn
\* being the already-flipped turn.
C2_AsWritten ==
    last.op = "apply_move" => ~can_capture_king(game, opposite(game.turn))

\* C2: after each application of a generated move, can_capture_king(turn) is
\* false on the resulting position, turn being the already-flipped turn: the
\* side now to move cannot capture the king of the side that moved.
C2_MoverKingSafe ==
    last.op = "apply_move" => ~can_capture_king(game, game.turn)

\* A generated move was applied and gives check: the side that moved can
\* capture the king of the side now to move.
C2_Witness ==
    /\ last.op = "apply_move"
    /\ last.status = "Ok"
    /\ can_capture_king(game, opposite(game.turn))
    /\ ~can_capture_king(game, game.turn)

\* C4: from Game::start_pos, gen_all_moves returns exactly 20 moves, and
\* applying them gives 20 positions.
C4_StartPosTwentyMoves ==
    (pc = "generated" /\ last.op = "gen_all_moves" /\ game = start_pos) =>
        /\ last.result.is_some
        /\ Len(last.result.moves) = 20
        /\ Cardinality({apply_move(game, last.result.moves[k]).game :
                            k \in 1..Len(last.result.moves)}) = 20

\* gen_all_moves was called on the starting position.
C4_Witness ==
    /\ pc = "generated"
    /\ last.op = "gen_all_moves"
    /\ game = start_pos
    /\ ply = 0
    /\ last.result.is_some

\* C8: on every position a client reaches from a position accepted by
\* Game::from_fen, apply_move returns Ok for each move of gen_pseudo_legal_moves
\* of each occupied square, and the expect() of gen_moves never panics.
C8_GeneratedMovesApply ==
    /\ pc # "panic"
    /\ \A i \in 0..63 :
         is_some(game.board[i]) =>
            \A k \in 1..Len(game_gen_pseudo_legal_moves(game, i % 8, i \div 8).moves) :
                apply_move(game,
                           game_gen_pseudo_legal_moves(game, i % 8, i \div 8).moves[k]).status
                    = "Ok"

(***************************************************************************)
(* A client calling apply_move with moves of its own making                *)
(***************************************************************************)
\* The squares the client's moves name: e1, h1, e2, e4 and h8
ArbSquares == {<<4, 7>>, <<7, 7>>, <<4, 6>>, <<4, 4>>, <<7, 0>>}

\* The values of Move the client passes: every variant, over ArbSquares
ArbMoves ==
    {Quiet(f, t) : f \in ArbSquares, t \in ArbSquares}
        \cup {Capture(f, t, t) : f \in ArbSquares, t \in ArbSquares}
        \cup {Castle(f, <<6, 7>>, r, <<5, 7>>) : f \in ArbSquares, r \in ArbSquares}
        \cup {QuietPromotion(f, t, Queen) : f \in ArbSquares, t \in ArbSquares}
        \cup {CapturePromotion(f, t, t, Knight) : f \in ArbSquares, t \in ArbSquares}

\* The client's positions: "r3k2r/8/8/8/8/8/4P3/R3K2R w KQkq -" and
\* "4k3/8/8/8/4P3/8/8/4K3 b - e3"
InitAny ==
    /\ LET AnyFen ==
               <<"r","3","k","2","r","/","8","/","8","/","8","/","8","/","8","/","4","P",
                "3","/","R","3","K","2","R"," ","w"," ","K","Q","k","q"," ","-">>
           AnyFenEp ==
               <<"4","k","3","/","8","/","8","/","8","/","4","P","3","/","8","/","8","/",
                "4","K","3"," ","b"," ","-"," ","e","3">>
       IN  \E fen \in {AnyFen, AnyFenEp} :
               from_fen(fen).status = "Ok" /\ game = from_fen(fen).game
    /\ last = NoLast
    /\ ply = 0
    /\ pc = "any"
    /\ perft = NoPerft

\* let result = game.apply_move(mv); a failing call leaves its effects on the game
ApplyAny ==
    /\ pc = "any"
    /\ ply < MaxCalls
    /\ \E mv \in ArbMoves :
        /\ game' = apply_move(game, mv).game
        /\ last' = [op |-> "apply_move", mv |-> mv, before |-> game,
                    status |-> apply_move(game, mv).status]
    /\ ply' = ply + 1
    /\ UNCHANGED <<pc, perft>>

NextAny == ApplyAny

SpecAny == InitAny /\ [][NextAny]_vars

\* C5: every apply_move that returns Ok leaves turn the opposite of the turn
\* before the call, so turn alternates over successful calls.
C5_TurnFlips ==
    (last.op = "apply_move" /\ last.status = "Ok") =>
        game.turn = opposite(last.before.turn)

\* Two calls were made, the second returned Ok and changed the turn.
C5_Witness ==
    /\ last.op = "apply_move"
    /\ last.status = "Ok"
    /\ ply > 1
    /\ game.turn # last.before.turn

\* C6: over any apply_move call, successful or failing, a castling-rights flag
\* that is false stays false.
C6_CastlingRightsMonotone ==
    [][/\ ~game.white_kingside_castle => ~game'.white_kingside_castle
       /\ ~game.white_queenside_castle => ~game'.white_queenside_castle
       /\ ~game.black_kingside_castle => ~game'.black_kingside_castle
       /\ ~game.black_queenside_castle => ~game'.black_queenside_castle]_vars

\* A right of White was lost in a first call while Black kept one, and a
\* failing call followed.
C6_Witness ==
    /\ last.op = "apply_move"
    /\ ply > 1
    /\ last.status # "Ok"
    /\ last.before.black_kingside_castle
    /\ ~last.before.white_kingside_castle
    /\ ~game.white_kingside_castle

\* C7: after an apply_move that returns Ok, en_passant is Some(to) if the move
\* was a Quiet move of a pawn whose rank changed by 2, and None after any other
\* move, whatever en_passant was before the call.
C7_EnPassantOneMove ==
    (last.op = "apply_move" /\ last.status = "Ok") =>
        IF /\ last.mv.type = "Quiet"
           /\ get_tile(last.before.board, last.mv.from[1], last.mv.from[2]).piece_type = Pawn
           /\ Abs(last.mv.from[2] - last.mv.to[2]) = 2
        THEN game.en_passant = last.mv.to
        ELSE game.en_passant = <<>>

\* A call made with en_passant set returned Ok and left another en_passant.
C7_Witness ==
    /\ last.op = "apply_move"
    /\ last.status = "Ok"
    /\ last.before.en_passant # <<>>
    /\ game.en_passant # <<>>
    /\ game.en_passant # last.before.en_passant

\* C9: apply_move returns Ok exactly when the from square, and for Castle the
\* rook_from square too, holds a piece; it returns an error only when one of
\* them is empty, whether or not the move leaves the mover's king capturable.
C9_OkIffOccupied ==
    last.op = "apply_move" =>
        (last.status = "Ok" <=>
            /\ is_some(get_tile(last.before.board, last.mv.from[1], last.mv.from[2]))
            /\ last.mv.type = "Castle" =>
                 is_some(get_tile(last.before.board,
                                  last.mv.rook_from[1], last.mv.rook_from[2])))

\* A piece of the side to move was moved, the call returned Ok, and the side
\* now to move can capture the king of the side that moved.
C9_Witness ==
    /\ last.op = "apply_move"
    /\ last.status = "Ok"
    /\ get_tile(last.before.board, last.mv.from[1], last.mv.from[2]).color
         = last.before.turn
    /\ ~can_capture_king(last.before, opposite(last.before.turn))
    /\ can_capture_king(game, game.turn)

\* C10 as written: apply_move of a Castle move returns Ok only if a king stands
\* on from and a rook on rook_from.
C10_AsWritten ==
    (last.op = "apply_move" /\ last.mv.type = "Castle" /\ last.status = "Ok") =>
        /\ get_tile(last.before.board, last.mv.from[1], last.mv.from[2]).piece_type = King
        /\ get_tile(last.before.board,
                    last.mv.rook_from[1], last.mv.rook_from[2]).piece_type = Rook

\* C10: apply_move of a Castle move returns Ok when from and rook_from both
\* hold a piece, of any kind; it returns Debug(1) when from is empty and
\* Debug(0) when from holds a piece and rook_from is empty.
C10_CastleNeedsTwoPieces ==
    (last.op = "apply_move" /\ last.mv.type = "Castle") =>
        last.status =
            IF is_none(get_tile(last.before.board, last.mv.from[1], last.mv.from[2]))
                THEN "Debug1"
            ELSE IF is_none(get_tile(last.before.board,
                                     last.mv.rook_from[1], last.mv.rook_from[2]))
                THEN "Debug0"
            ELSE "Ok"

\* A Castle move returned Ok with a piece on from that is not a king.
C10_Witness ==
    /\ last.op = "apply_move"
    /\ last.mv.type = "Castle"
    /\ last.status = "Ok"
    /\ get_tile(last.before.board, last.mv.from[1], last.mv.from[2]).piece_type # King

(***************************************************************************)
(* The perft tests, one step per iteration of the outermost loop           *)
(***************************************************************************)
\* let game = Game::from_fen(fen).unwrap();
InitPerft ==
    /\ \E t \in 1..Len(PerftTests) :
        /\ from_fen(PerftTests[t].fen).status = "Ok"
        /\ game = from_fen(PerftTests[t].fen).game
        /\ perft = [test |-> t, moves |-> <<>>, next |-> 1, amount |-> 0]
    /\ last = NoLast
    /\ ply = 0
    /\ pc = "perft_call"

\* amount_of_moves_recursively(game, 3): `let mut amount = 0;` and the vector
\* the outermost `for` runs over
PerftCall ==
    /\ pc = "perft_call"
    /\ perft' = [perft EXCEPT !.moves = unwrap_or_empty(gen_all_moves_by(game, TRUE))]
    /\ pc' = "perft_loop"
    /\ UNCHANGED <<game, last, ply>>

\* One iteration: clone, apply_move(m).unwrap(), amount += the recursive call
PerftIteration ==
    /\ pc = "perft_loop"
    /\ perft.next <= Len(perft.moves)
    /\ perft' = [perft EXCEPT
                    !.amount = @ + amount_over(game, perft.moves, PerftDepth,
                                               perft.next, perft.next),
                    !.next = @ + 1]
    /\ UNCHANGED <<game, last, ply, pc>>

\* The loop is over: `amount` is returned to the test
PerftReturn ==
    /\ pc = "perft_loop"
    /\ perft.next > Len(perft.moves)
    /\ pc' = "perft_returned"
    /\ UNCHANGED <<game, last, ply, perft>>

NextPerft == PerftCall \/ PerftIteration \/ PerftReturn

SpecPerft == InitPerft /\ [][NextPerft]_vars

\* C3: the number of sequences of PerftDepth = 3 moves, each taken from
\* gen_all_moves and applied with apply_move, is the amount the test asserts:
\* 2812, 9467, 97862 and 62379 from the four positions.
C3_PerftCounts ==
    pc = "perft_returned" => perft.amount = PerftTests[perft.test].amount

\* A test returned the amount it asserts, every move of its position counted.
C3_Witness ==
    /\ pc = "perft_returned"
    /\ Len(perft.moves) > 0
    /\ perft.next = Len(perft.moves) + 1
    /\ perft.amount = PerftTests[perft.test].amount

\* C11: is_checkmate and is_stalemate are never both true; when gen_all_moves
\* returns None exactly one of them is true, is_checkmate if is_check and
\* is_stalemate otherwise; when gen_all_moves returns moves both are false.
C11_EndedExclusive ==
    pc = "checked" =>
        /\ ~(last.checkmate /\ last.stalemate)
        /\ IF gen_all_moves(game).is_some
           THEN ~last.checkmate /\ ~last.stalemate
           ELSE /\ last.checkmate = is_check(game)
                /\ last.stalemate = ~is_check(game)

\* The two functions were called on a position that is checkmate.
C11_Witness ==
    /\ pc = "checked"
    /\ last.checkmate
    /\ ~last.stalemate
    /\ ply > 0

\* C12: gen_moves(x, y) returns None when the square is empty or holds a piece
\* of the colour not to move, never returns Some of an empty vector, and every
\* move it returns has from = (x, y).
C12_GenMovesOfSquare ==
    (pc = "generated" /\ last.op = "gen_moves") =>
        /\ (\/ is_none(get_tile(game.board, last.at[1], last.at[2]))
            \/ get_tile(game.board, last.at[1], last.at[2]).color # game.turn)
               => ~last.result.is_some
        /\ last.result.is_some => Len(last.result.moves) > 0
        /\ \A k \in 1..Len(last.result.moves) : last.result.moves[k].from = last.at

\* C13: with White to move, a white pawn on (4, 3) and en_passant = (3, 3), the
\* square of the black pawn that has just moved two ranks (FEN target d6),
\* gen_moves(4, 3) holds the Capture with to = (3, 2) and capture = (3, 3); and
\* every capture a pawn makes onto an empty square, as returned by gen_moves,
\* has for capture square the en_passant square, which is not its destination.
C13_EnPassantCapture ==
    (pc = "generated" /\ last.op = "gen_moves") =>
        /\ (/\ game.turn = White
            /\ last.at = <<4, 3>>
            /\ get_tile(game.board, 4, 3) = Piece(Pawn, White)
            /\ get_tile(game.board, 3, 3) = Piece(Pawn, Black)
            /\ game.en_passant = <<3, 3>>)
               => \E k \in 1..Len(last.result.moves) :
                     last.result.moves[k] = Capture(<<4, 3>>, <<3, 2>>, <<3, 3>>)
        /\ \A k \in 1..Len(last.result.moves) :
              (/\ last.result.moves[k].type = "Capture"
               /\ get_tile(game.board, last.at[1], last.at[2]).piece_type = Pawn
               /\ is_none(get_tile(game.board, last.result.moves[k].to[1],
                                   last.result.moves[k].to[2])))
                  => /\ last.result.moves[k].capture = game.en_passant
                     /\ last.result.moves[k].capture # last.result.moves[k].to
                     /\ get_tile(game.board, last.result.moves[k].capture[1],
                                 last.result.moves[k].capture[2])
                          = Piece(Pawn, opposite(game.turn))

\* gen_moves was called for a pawn next to the en_passant square, after a pawn
\* was moved two ranks in play, and returned the en-passant capture.
C13_Witness ==
    /\ pc = "generated"
    /\ last.op = "gen_moves"
    /\ ply > 0
    /\ game.en_passant # <<>>
    /\ \E k \in 1..Len(last.result.moves) :
          /\ last.result.moves[k].type = "Capture"
          /\ last.result.moves[k].capture = game.en_passant
          /\ last.result.moves[k].capture # last.result.moves[k].to

C16_DoublePushRecognised ==
    (pc = "generated" /\ last.result.is_some) =>
        \A k \in 1..Len(last.result.moves) :
            LET m == last.result.moves[k]
            IN  is_double_pawn_push(m) <=>
                    /\ m.type = "Quiet"
                    /\ get_tile(game.board, m.from[1], m.from[2]).piece_type = Pawn
                    /\ m.to[2] - m.from[2] \in {2, -2}

----------------------------------------------------------------------------
\* Games that are followed for their castling rights: the starting position,
\* and a position of a later stage of a game in which all four rights are
\* still held, with either colour to move: kings and rooks at home, a white
\* pawn on b7 that may capture on a8 and promote, a black pawn on g2 that may
\* capture on h1 and promote.

RooksFen ==
    <<"r","3","k","2","r","/","1","P","6","/","8","/","8","/","8","/","8","/",
      "6","p","1","/","R","3","K","2","R"," ","w"," ","K","Q","k","q"," ","-">>

RooksFenBlack ==
    <<"r","3","k","2","r","/","1","P","6","/","8","/","8","/","8","/","8","/",
      "6","p","1","/","R","3","K","2","R"," ","b"," ","K","Q","k","q"," ","-">>

InitTrack ==
    /\ \E fen \in {StartFen, RooksFen, RooksFenBlack} :
           from_fen(fen).status = "Ok" /\ game = from_fen(fen).game
    /\ last = NoLast
    /\ ply = 0
    /\ pc = "idle"
    /\ perft = NoPerft

\* while let Some(moves) = game.gen_all_moves() { game.apply_move(moves[k]) }
NextTrack ==
    \/ GenAllMoves
    \/ ApplyGenerated

SpecTrack == InitTrack /\ [][NextTrack]_vars

\* C17: while a castling right of a colour and side is held, the king of that
\* colour stands on (4, home rank) and a rook of that colour on the corner of
\* that side.
C17_RightsTrackPieces ==
    /\ game.white_kingside_castle =>
          /\ get_tile(game.board, 4, 7) = Piece(King, White)
          /\ get_tile(game.board, 7, 7) = Piece(Rook, White)
    /\ game.white_queenside_castle =>
          /\ get_tile(game.board, 4, 7) = Piece(King, White)
          /\ get_tile(game.board, 0, 7) = Piece(Rook, White)
    /\ game.black_kingside_castle =>
          /\ get_tile(game.board, 4, 0) = Piece(King, Black)
          /\ get_tile(game.board, 7, 0) = Piece(Rook, Black)
    /\ game.black_queenside_castle =>
          /\ get_tile(game.board, 4, 0) = Piece(King, Black)
          /\ get_tile(game.board, 0, 0) = Piece(Rook, Black)

\* A rook was captured on its corner while its king stayed at home: the right
\* of that side is gone and the right of the other side is still held.
C17_Witness ==
    /\ last.op = "apply_move"
    /\ is_capture(last.mv)
    /\ last.mv.capture = <<0, 0>>
    /\ last.before.black_queenside_castle
    /\ ~game.black_queenside_castle
    /\ game.black_kingside_castle

----------------------------------------------------------------------------
\* Parsing. A caller hands a string to Game::from_fen, or a piece-placement
\* field to one of the two parsers of that field the repository holds
\* (Board::from_fen of board.rs, piece_placement_part of board/fen_parser.rs).

PawnsPlacement ==
    <<"4","k","3","/","8","/","8","/","3","p","P","3","/","6","p","P","/","8",
      "/","8","/","4","K","3">>

ShiftedPlacement ==
    <<"7","/","p","8","/","8","/","8","/","8","/","8","/","8","/","8">>

ShortPlacement ==
    <<"8","/","8","/","8","/","8","/","8","/","8","/","8","/","7">>

Placements ==
    LET StartPlacement ==
            <<"r","n","b","q","k","b","n","r","/","p","p","p","p","p","p","p","p","/",
              "8","/","8","/","8","/","8","/","P","P","P","P","P","P","P","P","/","R",
              "N","B","Q","K","B","N","R">>
        NinePlacement ==
            <<"9","/","7","/","8","/","8","/","8","/","8","/","8","/","8">>
        RowOverflowPlacement ==
            <<"4","4","p","/","8","/","8","/","8","/","8","/","8","/","8","/","7">>
        LongPlacement ==
            <<"8","/","8","/","8","/","8","/","8","/","8","/","8","/","8","p">>
        SevenRowsPlacement ==
            <<"8","/","8","/","8","/","8","/","8","/","8","/","8">>
        NineRowsPlacement ==
            <<"8","/","8","/","8","/","8","/","8","/","8","/","8","/","8","/","p">>
        TrailingSlashPlacement ==
            <<"8","/","8","/","8","/","8","/","8","/","8","/","8","/","8","/">>
        UnknownPlacement ==
            <<"x","7","/","8","/","8","/","8","/","8","/","8","/","8","/","8">>
    IN  {PawnsPlacement, StartPlacement, ShiftedPlacement, NinePlacement,
         RowOverflowPlacement, ShortPlacement, LongPlacement, SevenRowsPlacement,
         NineRowsPlacement, TrailingSlashPlacement, UnknownPlacement}

\* The fields of a FEN string, joined by single spaces
RECURSIVE JoinFields(_)
JoinFields(parts) ==
    IF Len(parts) = 0 THEN <<>>
    ELSE IF Len(parts) = 1 THEN parts[1]
    ELSE parts[1] \o <<" ">> \o JoinFields(Tail(parts))

\* The strings handed to Game::from_fen. Every en-passant field of a file and
\* a rank, "-", and three that are no target; strings of four fields; strings of one to six fields,
\* the empty string among them (split gives it one empty field)
FenInputs ==
    LET EnPassantFields ==
            {<<f, r>> : f \in {"a", "b", "c", "d", "e", "f", "g", "h"},
                        r \in {"1", "2", "3", "4", "5", "6", "7", "8"}}
                \cup {<<"-">>, <<"e">>, <<"i", "3">>, <<"e", "9">>}
        FourFieldFens ==
            {JoinFields(<<p, t, c, e>>) :
                p \in {PawnsPlacement, ShiftedPlacement, ShortPlacement},
                t \in {<<"w">>, <<"b">>, <<"x">>},
                c \in {<<"-">>, <<"K", "Q", "k", "q">>, <<"K", "K">>},
                e \in EnPassantFields}
        OtherFieldCountFens ==
            {JoinFields(SubSeq(<<PawnsPlacement, <<"w">>, <<"-">>, <<"-">>, <<"0">>, <<"1">> >>,
                               1, n)) : n \in 0..6}
                \cup {JoinFields(<<ShiftedPlacement, <<"w">>, <<"K", "Q", "k", "q">> >>),
                      JoinFields(<<PawnsPlacement, <<"b">> >>)}
    IN  FourFieldFens \cup OtherFieldCountFens

InitFen ==
    /\ game = NoGame
    /\ last = NoLast
    /\ ply = 0
    /\ pc = "parse"
    /\ perft = NoPerft

\* let game = Game::from_fen(fen);
FromFen(fen) ==
    /\ pc = "parse"
    /\ game' = from_fen(fen).game
    /\ last' = [op |-> "from_fen", fen |-> fen, status |-> from_fen(fen).status]
    /\ pc' = "parsed"
    /\ UNCHANGED <<ply, perft>>

\* let board = Board::from_fen(fen);  (board.rs)
BoardFromFen(fen) ==
    /\ pc = "parse"
    /\ game' = [NoGame EXCEPT !.board = Board_from_fen(fen).tiles]
    /\ last' = [op |-> "Board::from_fen", fen |-> fen,
                status |-> Board_from_fen(fen).status]
    /\ pc' = "parsed"
    /\ UNCHANGED <<ply, perft>>

\* let tiles = piece_placement_part(fen_part_pieces);  (board/fen_parser.rs)
PiecePlacementPart(fen_part) ==
    /\ pc = "parse"
    /\ game' = [NoGame EXCEPT !.board = piece_placement_part(fen_part).tiles]
    /\ last' = [op |-> "piece_placement_part", fen |-> fen_part,
                status |-> piece_placement_part(fen_part).status]
    /\ pc' = "parsed"
    /\ UNCHANGED <<ply, perft>>

NextFen ==
    \/ \E fen \in FenInputs : FromFen(fen)
    \/ \E fen \in Placements : BoardFromFen(fen)
    \/ \E fen_part \in Placements : PiecePlacementPart(fen_part)

SpecFen == InitFen /\ [][NextFen]_vars

\* C18: from_fen answers every string whose number of space-separated fields
\* is not 4 with Err(IncorrectAmountOfParts), without a panic.
C18_FieldCountReported ==
    (pc = "parsed" /\ last.op = "from_fen"
        /\ Cardinality({i \in 1..Len(last.fen) : last.fen[i] = " "}) + 1 # 4)
            => last.status = "IncorrectAmountOfParts"

\* C19: a parser of the piece-placement field accepts the field only if it has
\* 8 ranks, each accounting for exactly 8 files (a piece letter for one, a
\* digit for as many as its value).
C19_RanksOfEight ==
    (pc = "parsed" /\ last.op \in {"Board::from_fen", "piece_placement_part"}
        /\ last.status = "Ok") =>
            LET ranks == split(last.fen, "/")
                files(row) ==
                    LET sum[k \in 0..Len(row)] ==
                            IF k = 0 THEN 0
                            ELSE sum[k - 1] + (IF IsDigit(row[k]) THEN DigitValue(row[k])
                                               ELSE 1)
                    IN  sum[Len(row)]
            IN  /\ Len(ranks) = 8
                /\ \A r \in 1..Len(ranks) : files(ranks[r]) = 8

\* C20: when the other three fields are accepted and the en-passant field names
\* a target, from_fen returns Ok exactly when the square one rank beyond the
\* target (towards the side that just moved) is on the board and holds a pawn
\* of the colour that is not to move, and stores that square as en_passant; for
\* every other target it returns Err(InvalidEnPassant).
C20_EnPassantValidated ==
    (pc = "parsed" /\ last.op = "from_fen") =>
        LET parts == split(last.fen, " ")
            turn == IF parts[2] = <<"w">> THEN White ELSE Black
            target == en_passant(parts[4]).square
            pawn == <<target[1], IF turn = White THEN target[2] + 1 ELSE target[2] - 1>>
        IN  (/\ Len(parts) = 4
             /\ Board_from_fen(parts[1]).status = "Ok"
             /\ parts[2] \in {<<"w">>, <<"b">>}
             /\ castling_part(parts[3]).status = "Ok"
             /\ en_passant(parts[4]).status = "Ok"
             /\ target # <<>>) =>
                IF /\ pawn[2] \in 0..7
                   /\ Board_from_fen(parts[1]).tiles[pawn[2] * 8 + pawn[1]]
                        = Piece(Pawn, opposite(turn))
                THEN last.status = "Ok" /\ game.en_passant = pawn
                ELSE last.status = "InvalidEnPassant"

\* C21: a move generated for a rook, bishop or queen runs along a ray of the
\* piece, every square strictly between from and to is empty, the target of a
\* Quiet move is empty and the target of a Capture holds a piece of the other
\* colour (so no move lands on a piece of the mover's colour or passes an
\* occupied square).
C21_SlidersNeverJump ==
    pc = "idle" =>
        \A i \in 0..63 :
            game.board[i].piece_type \in {Rook, Bishop, Queen} =>
                \A k \in 1..Len(game_gen_pseudo_legal_moves(game, i % 8, i \div 8).moves) :
                    LET m == game_gen_pseudo_legal_moves(game, i % 8, i \div 8).moves[k]
                        piece == game.board[i]
                        dx == m.to[1] - m.from[1]
                        dy == m.to[2] - m.from[2]
                        n == IF Abs(dx) > Abs(dy) THEN Abs(dx) ELSE Abs(dy)
                        straight == (dx = 0) # (dy = 0)
                        diagonal == Abs(dx) = Abs(dy) /\ dx # 0
                    IN  /\ m.from = <<i % 8, i \div 8>>
                        /\ m.type \in {"Quiet", "Capture"}
                        /\ CASE piece.piece_type = Rook -> straight
                             [] piece.piece_type = Bishop -> diagonal
                             [] OTHER -> straight \/ diagonal
                        /\ \A j \in 1..(n - 1) :
                              is_none(get_tile(game.board, m.from[1] + (dx \div n) * j,
                                               m.from[2] + (dy \div n) * j))
                        /\ m.type = "Quiet" => is_none(get_tile(game.board, m.to[1], m.to[2]))
                        /\ m.type = "Capture" =>
                              /\ m.capture = m.to
                              /\ is_some(get_tile(game.board, m.to[1], m.to[2]))
                              /\ get_tile(game.board, m.to[1], m.to[2]).color
                                    = opposite(piece.color)

\* After a move was played, gen_moves of a rook, bishop or queen returned a
\* capture at a distance of two squares or more, and the square behind the
\* captured piece on the same ray is on the board.
C21_Witness ==
    /\ pc = "generated"
    /\ last.op = "gen_moves"
    /\ ply > 0
    /\ get_tile(game.board, last.at[1], last.at[2]).piece_type \in {Rook, Bishop, Queen}
    /\ last.result.is_some
    /\ \E k \in 1..Len(last.result.moves) :
          LET m == last.result.moves[k]
              dx == m.to[1] - m.from[1]
              dy == m.to[2] - m.from[2]
              n == IF Abs(dx) > Abs(dy) THEN Abs(dx) ELSE Abs(dy)
          IN  /\ m.type = "Capture"
              /\ n >= 2
              /\ InRange(m.to[1] + dx \div n, m.to[2] + dy \div n)

\* C22: the generator returns a two-rank push for a pawn exactly when the pawn
\* stands on the starting rank of its colour (y = 6 for White, y = 1 for Black)
\* and the square in front of it and the square behind that one are both empty.
C22_DoublePushIff ==
    pc = "idle" =>
        \A x \in 0..7, y \in 0..7 :
            get_tile(game.board, x, y).piece_type = Pawn =>
                LET color == get_tile(game.board, x, y).color
                    step == IF color = White THEN -1 ELSE 1
                    moves == game_gen_pseudo_legal_moves(game, x, y).moves
                    two_rank == {k \in 1..Len(moves) : Abs(moves[k].to[2] - y) = 2}
                IN  /\ two_rank # {}
                        <=> /\ y = (IF color = White THEN 6 ELSE 1)
                            /\ is_none(get_tile(game.board, x, y + step))
                            /\ is_none(get_tile(game.board, x, y + 2 * step))
                    /\ \A k \in two_rank : moves[k] = Quiet(<<x, y>>, <<x, y + 2 * step>>)

\* After a move was played, gen_moves of a pawn on its starting rank returned a
\* two-rank push, while another pawn stands on its starting rank with the
\* square in front of it occupied.
C22_Witness ==
    /\ pc = "generated"
    /\ last.op = "gen_moves"
    /\ ply > 0
    /\ get_tile(game.board, last.at[1], last.at[2]).piece_type = Pawn
    /\ last.result.is_some
    /\ \E k \in 1..Len(last.result.moves) :
          Abs(last.result.moves[k].to[2] - last.result.moves[k].from[2]) = 2
    /\ \E x \in 0..7 :
          \/ /\ get_tile(game.board, x, 6) = Piece(Pawn, White)
             /\ is_some(get_tile(game.board, x, 5))
          \/ /\ get_tile(game.board, x, 1) = Piece(Pawn, Black)
             /\ is_some(get_tile(game.board, x, 2))

----------------------------------------------------------------------------
\* The attack oracle on its own: tile_under_attack asked about any tile and
\* either colour, on the positions of short games.

InitAttack ==
    /\ \E fen \in {EnPassantFen, PerftFen1, CastleFen, AttackedCastleFen} :
           from_fen(fen).status = "Ok" /\ game = from_fen(fen).game
    /\ last = NoLast
    /\ ply = 0
    /\ pc = "idle"
    /\ perft = NoPerft

\* let attacked = tile_under_attack(&game, x, y, color);  the position is
\* borrowed immutably and the function works on a clone.
TileUnderAttack(x, y, color) ==
    /\ pc = "idle"
    /\ ply < MaxPly
    /\ last' = [op |-> "tile_under_attack", at |-> <<x, y>>, color |-> color,
                position |-> game, result |-> tile_under_attack(game, x, y, color)]
    /\ pc' = "attacked"
    /\ UNCHANGED <<game, ply, perft>>

NextAttack ==
    \/ GenAllMoves
    \/ ApplyGenerated
    \/ \E x \in 0..7, y \in 0..7, color \in {White, Black} : TileUnderAttack(x, y, color)

SpecAttack == InitAttack /\ [][NextAttack]_vars

----------------------------------------------------------------------------
\* The calls between gen_pseudo_legal_moves and tile_under_attack, one step per
\* call and per return. last.stack holds the frames of the calls in progress,
\* the innermost last; a frame holds the arguments of its call and the calls it
\* has still to make.

\* The calls of tile_under_attack one entry of check_data makes: none unless
\* the tiles of tiles_empty are empty, then one per tile of tiles_not_attacked,
\* in order, up to the first that is attacked (`all` stops there).
castle_move_calls(g, color, data) ==
    IF ~(\A k \in 1..Len(data[2]) :
            is_none(get_tile(g.board, data[2][k], castle_rank(color))))
    THEN <<>>
    ELSE LET attacked == {k \in 1..Len(data[1]) :
                             tile_under_attack(g, data[1][k], castle_rank(color),
                                               opposite(color))}
             n == IF attacked = {} THEN Len(data[1])
                  ELSE CHOOSE k \in attacked : \A j \in attacked : k <= j
         IN  [k \in 1..n |-> <<data[1][k], castle_rank(color), opposite(color)>>]

\* tile_under_attack_calls without the test of skip_castle.
tile_under_attack_calls_not_skipping(g, x, y, skip_castle) ==
    LET piece == get_tile(g.board, x, y)
    IN  IF is_none(piece) THEN <<>>
        ELSE IF piece.piece_type # King THEN <<>>
        ELSE (IF kingside_castle(g, piece.color)
              THEN castle_move_calls(g, piece.color, king_side_tiles) ELSE <<>>)
             \o (IF queenside_castle(g, piece.color)
                 THEN castle_move_calls(g, piece.color, queen_side_tiles) ELSE <<>>)

\* The calls of tile_under_attack that gen_pseudo_legal_moves(x, y,
\* skip_castle) makes on the position g.
tile_under_attack_calls(g, x, y, skip_castle) ==
    LET piece == get_tile(g.board, x, y)
    IN  IF is_none(piece) THEN <<>>
        ELSE IF ~(piece.piece_type = King /\ ~skip_castle) THEN <<>>
        ELSE (IF kingside_castle(g, piece.color)
              THEN castle_move_calls(g, piece.color, king_side_tiles) ELSE <<>>)
             \o (IF queenside_castle(g, piece.color)
                 THEN castle_move_calls(g, piece.color, queen_side_tiles) ELSE <<>>)

\* The tiles tile_under_attack(x, y, color) calls gen_pseudo_legal_moves for,
\* with skip_castle = true, on its dummy board: none when (x, y) holds a piece
\* of `color`, otherwise the pieces of `color` in the order of the tiles, up to
\* the first whose moves capture (x, y) (`any` stops there).
gen_pseudo_legal_moves_calls(g, x, y, color) ==
    IF is_some(get_tile(g.board, x, y)) /\ get_tile(g.board, x, y).color = color
    THEN <<>>
    ELSE LET dummy == dummy_board(g, x, y, color)
             pieces == SelectSeq([k \in 1..64 |-> k - 1],
                                 LAMBDA i : /\ is_some(dummy.board[i])
                                            /\ dummy.board[i].color = color)
             hits == {k \in 1..Len(pieces) :
                         captures_at(gen_pseudo_legal_moves(dummy, pieces[k] % 8,
                                                            pieces[k] \div 8, TRUE).moves,
                                     x, y)}
             n == IF hits = {} THEN Len(pieces)
                  ELSE CHOOSE k \in hits : \A j \in hits : k <= j
         IN  SubSeq(pieces, 1, n)

\* Positions with castling rights: for White alone, for both colours, for none.
InitCalls ==
    /\ \E fen \in {CastleFen, AttackedCastleFen, QueenCastleFen, RooksFen,
                   RooksFenBlack, MateFen} :
           from_fen(fen).status = "Ok" /\ game = from_fen(fen).game
    /\ last = NoLast
    /\ ply = 0
    /\ pc = "idle"
    /\ perft = NoPerft

\* self.gen_pseudo_legal_moves(x, y, false), as gen_moves and can_capture_king
\* call it
CallGenerator(x, y) ==
    /\ pc = "idle"
    /\ last' = [op |-> "gen_pseudo_legal_moves",
                stack |-> << [fn |-> "gen_pseudo_legal_moves", g |-> game,
                              x |-> x, y |-> y, skip_castle |-> FALSE,
                              todo |-> tile_under_attack_calls(game, x, y, FALSE)] >>]
    /\ pc' = "calling"
    /\ UNCHANGED <<game, ply, perft>>

\* tile_under_attack(&self, x, rank, piece.color.opposite()) in the castling block
CallTileUnderAttack ==
    /\ pc = "calling"
    /\ LET n == Len(last.stack)
           top == last.stack[n]
       IN  /\ top.fn = "gen_pseudo_legal_moves"
           /\ Len(top.todo) > 0
           /\ last' = [last EXCEPT !.stack =
                  Append([last.stack EXCEPT ![n].todo = Tail(top.todo)],
                         [fn |-> "tile_under_attack", g |-> top.g,
                          x |-> top.todo[1][1], y |-> top.todo[1][2],
                          color |-> top.todo[1][3],
                          todo |-> gen_pseudo_legal_moves_calls(
                                       top.g, top.todo[1][1], top.todo[1][2],
                                       top.todo[1][3])])]
    /\ UNCHANGED <<game, ply, pc, perft>>

\* dummy_board.gen_pseudo_legal_moves(x, y, true) in tile_under_attack
CallGeneratorSkippingCastle ==
    /\ pc = "calling"
    /\ LET n == Len(last.stack)
           top == last.stack[n]
           dummy == dummy_board(top.g, top.x, top.y, top.color)
       IN  /\ top.fn = "tile_under_attack"
           /\ Len(top.todo) > 0
           /\ last' = [last EXCEPT !.stack =
                  Append([last.stack EXCEPT ![n].todo = Tail(top.todo)],
                         [fn |-> "gen_pseudo_legal_moves", g |-> dummy,
                          x |-> top.todo[1] % 8, y |-> top.todo[1] \div 8,
                          skip_castle |-> TRUE,
                          todo |-> tile_under_attack_calls(dummy, top.todo[1] % 8,
                                                           top.todo[1] \div 8, TRUE)])]
    /\ UNCHANGED <<game, ply, pc, perft>>

\* The innermost call has no call left to make and returns.
Return ==
    /\ pc = "calling"
    /\ Len(last.stack[Len(last.stack)].todo) = 0
    /\ last' = [last EXCEPT !.stack = SubSeq(last.stack, 1, Len(last.stack) - 1)]
    /\ pc' = IF Len(last.stack) = 1 THEN "returned" ELSE "calling"
    /\ UNCHANGED <<game, ply, perft>>

NextCalls ==
    \/ \E x \in 0..7, y \in 0..7 : CallGenerator(x, y)
    \/ CallTileUnderAttack
    \/ CallGeneratorSkippingCastle
    \/ Return

\* A call in progress goes on: the program is sequential.
SpecCalls == InitCalls /\ [][NextCalls]_vars /\ WF_vars(NextCalls)

\* C24, the nesting: the calls in progress are at most gen_pseudo_legal_moves
\* with skip_castle = false, tile_under_attack called by it, and
\* gen_pseudo_legal_moves with skip_castle = true called by that, which has no
\* call of tile_under_attack to make.
\* C24: every call of gen_pseudo_legal_moves returns, and the calls in progress
\* never nest deeper than three.
C24_GenerationTerminates ==
    /\ [](pc = "calling" =>
               /\ Len(last.stack) <= 3
               /\ \A d \in 1..Len(last.stack) :
                     LET f == last.stack[d]
                     IN  CASE d = 1 -> f.fn = "gen_pseudo_legal_moves" /\ ~f.skip_castle
                           [] d = 2 -> f.fn = "tile_under_attack"
                           [] OTHER -> /\ f.fn = "gen_pseudo_legal_moves"
                                       /\ f.skip_castle
                                       /\ Len(f.todo) = 0)
    /\ (pc = "calling") ~> (pc = "returned")

\* Both kings hold castling rights, and the generator runs with skip_castle =
\* true for a king that holds a right, inside tile_under_attack inside the
\* generator called for the other king.
C24_Witness ==
    /\ pc = "calling"
    /\ Len(last.stack) = 3
    /\ game.white_kingside_castle /\ game.black_kingside_castle
    /\ last.stack[1].g.board[last.stack[1].y * 8 + last.stack[1].x].piece_type = King
    /\ LET f == last.stack[3]
       IN  /\ get_tile(f.g.board, f.x, f.y).piece_type = King
           /\ kingside_castle(f.g, get_tile(f.g.board, f.x, f.y).color)

\* C25: every coordinate of every move the generator returns, for every
\* occupied tile of a position, lies in 0..7: from, to, the capture square of a
\* capture, rook_from and rook_to of a castle.
C25_CoordinatesInRange ==
    pc = "idle" =>
        \A i \in 0..63 :
            is_some(game.board[i]) =>
                \A k \in 1..Len(game_gen_pseudo_legal_moves(game, i % 8, i \div 8).moves) :
                    LET m == game_gen_pseudo_legal_moves(game, i % 8, i \div 8).moves[k]
                        on_board(sq) == sq[1] \in 0..7 /\ sq[2] \in 0..7
                    IN  /\ on_board(m.from)
                        /\ on_board(m.to)
                        /\ m.type \in {"Capture", "CapturePromotion"} => on_board(m.capture)
                        /\ m.type = "Castle" => on_board(m.rook_from) /\ on_board(m.rook_to)

\* After a move was played, gen_moves returned moves for a piece that stands
\* on the a file or the h file, where one step sideways leaves the board.
C25_Witness ==
    /\ pc = "generated"
    /\ last.op = "gen_moves"
    /\ ply > 0
    /\ last.at[1] \in {0, 7}
    /\ get_tile(game.board, last.at[1], last.at[2]).piece_type \in {Pawn, Knight, King}
    /\ last.result.is_some
    /\ Len(last.result.moves) > 0

\* C26: after an apply_move that returns Ok (from and to being two squares),
\* every tile the move does not name is as before; from is empty; to holds the
\* piece that stood on from, of the promoted kind after a promotion; a capture
\* square other than to is empty; after a castle rook_from is empty and rook_to
\* holds the piece that stood on rook_from.
C26_OnlyNamedSquaresChange ==
    (last.op = "apply_move" /\ last.status = "Ok" /\ last.mv.from # last.mv.to) =>
        LET m == last.mv
            mover == get_tile(last.before.board, m.from[1], m.from[2])
            named == {m.from, m.to}
                        \cup (IF m.type \in {"Capture", "CapturePromotion"}
                              THEN {m.capture} ELSE {})
                        \cup (IF m.type = "Castle" THEN {m.rook_from, m.rook_to} ELSE {})
        IN  /\ \A x \in 0..7, y \in 0..7 :
                  <<x, y>> \notin named =>
                      get_tile(game.board, x, y) = get_tile(last.before.board, x, y)
            /\ is_none(get_tile(game.board, m.from[1], m.from[2]))
            /\ get_tile(game.board, m.to[1], m.to[2]) =
                  IF m.type \in {"QuietPromotion", "CapturePromotion"}
                  THEN Piece(m.promotion, mover.color)
                  ELSE mover
            /\ (m.type \in {"Capture", "CapturePromotion"} /\ m.capture # m.to) =>
                  is_none(get_tile(game.board, m.capture[1], m.capture[2]))
            /\ m.type = "Castle" =>
                  /\ is_none(get_tile(game.board, m.rook_from[1], m.rook_from[2]))
                  /\ get_tile(game.board, m.rook_to[1], m.rook_to[2])
                        = get_tile(last.before.board, m.rook_from[1], m.rook_from[2])

\* A generated en-passant capture was applied: the captured pawn stood beside
\* the destination, not on it.
C26_Witness ==
    /\ last.op = "apply_move"
    /\ last.status = "Ok"
    /\ last.mv.type = "Capture"
    /\ last.mv.capture # last.mv.to
    /\ get_tile(last.before.board, last.mv.capture[1], last.mv.capture[2]).piece_type = Pawn
    /\ is_none(get_tile(last.before.board, last.mv.to[1], last.mv.to[2]))

\* C27 as the claim states it: a Quiet move revokes the two rights of the
\* colour of a king that moves and the right of the corner a rook departs, and
\* leaves the four flags as they were when any other piece moves, from a
\* corner or not.
C27_AsWritten ==
    (last.op = "apply_move" /\ last.status = "Ok" /\ last.mv.type = "Quiet") =>
        LET mover == get_tile(last.before.board, last.mv.from[1], last.mv.from[2])
            king(color) == mover = Piece(King, color)
            rook_from(sq) == mover.piece_type = Rook /\ last.mv.from = sq
        IN  /\ game.white_kingside_castle =
                  (last.before.white_kingside_castle
                      /\ ~king(White) /\ ~rook_from(<<7, 7>>))
            /\ game.white_queenside_castle =
                  (last.before.white_queenside_castle
                      /\ ~king(White) /\ ~rook_from(<<0, 7>>))
            /\ game.black_kingside_castle =
                  (last.before.black_kingside_castle
                      /\ ~king(Black) /\ ~rook_from(<<7, 0>>))
            /\ game.black_queenside_castle =
                  (last.before.black_queenside_castle
                      /\ ~king(Black) /\ ~rook_from(<<0, 0>>))

\* C27 as the code has it: a Quiet move revokes the two rights of the colour of
\* a king that moves and the right of the corner that any piece departs,
\* whatever its kind and colour, and leaves every other flag as it was.
C27_QuietRevokesByCorner ==
    (last.op = "apply_move" /\ last.status = "Ok" /\ last.mv.type = "Quiet") =>
        LET mover == get_tile(last.before.board, last.mv.from[1], last.mv.from[2])
            king(color) == mover = Piece(King, color)
        IN  /\ game.white_kingside_castle =
                  (last.before.white_kingside_castle
                      /\ ~king(White) /\ last.mv.from # <<7, 7>>)
            /\ game.white_queenside_castle =
                  (last.before.white_queenside_castle
                      /\ ~king(White) /\ last.mv.from # <<0, 7>>)
            /\ game.black_kingside_castle =
                  (last.before.black_kingside_castle
                      /\ ~king(Black) /\ last.mv.from # <<7, 0>>)
            /\ game.black_queenside_castle =
                  (last.before.black_queenside_castle
                      /\ ~king(Black) /\ last.mv.from # <<0, 0>>)

\* A piece that is neither a king nor a rook left the corner h1 by a Quiet move
\* while White held the kingside right, and the right is gone.
C27_Witness ==
    /\ last.op = "apply_move"
    /\ last.status = "Ok"
    /\ last.mv.type = "Quiet"
    /\ last.mv.from = <<7, 7>>
    /\ get_tile(last.before.board, 7, 7).piece_type \notin {King, Rook}
    /\ last.before.white_kingside_castle
    /\ ~game.white_kingside_castle

\* C28 as the claim states it: an apply_move that returns an error leaves the
\* position exactly as it was: tiles, turn, the four castling rights and the
\* en-passant square.
C28_AsWritten ==
    (last.op = "apply_move" /\ last.status # "Ok") => game = last.before

\* C28 as the code has it: an apply_move that returns an error leaves tiles,
\* turn and the four castling rights as they were, and en_passant None: the
\* en-passant square is cleared before the move is looked at.
C28_FailedCallClearsEnPassantOnly ==
    (last.op = "apply_move" /\ last.status # "Ok") =>
        /\ game.board = last.before.board
        /\ game.turn = last.before.turn
        /\ game.white_kingside_castle = last.before.white_kingside_castle
        /\ game.white_queenside_castle = last.before.white_queenside_castle
        /\ game.black_kingside_castle = last.before.black_kingside_castle
        /\ game.black_queenside_castle = last.before.black_queenside_castle
        /\ game.en_passant = <<>>

\* A call made on a position with an en-passant square returned an error, and
\* the en-passant square is gone.
C28_Witness ==
    /\ last.op = "apply_move"
    /\ last.status # "Ok"
    /\ last.before.en_passant # <<>>
    /\ game.en_passant = <<>>
    /\ game.board = last.before.board

\* C29: in every position of a game played with generated moves the board
\* holds exactly one white king and exactly one black king, and no move that
\* gen_moves or gen_all_moves returns has a capture square that holds a king.
C29_KingsNeverCaptured ==
    /\ Cardinality({i \in 0..63 : game.board[i] = Piece(King, White)}) = 1
    /\ Cardinality({i \in 0..63 : game.board[i] = Piece(King, Black)}) = 1
    /\ pc = "generated" =>
          \A k \in 1..Len(last.result.moves) :
              LET m == last.result.moves[k]
              IN  m.type \in {"Capture", "CapturePromotion"} =>
                      get_tile(game.board, m.capture[1], m.capture[2]).piece_type # King

\* After a move was played the king of the side to move is attacked, and
\* gen_all_moves returned moves, a capture among them.
C29_Witness ==
    /\ pc = "generated"
    /\ last.op = "gen_all_moves"
    /\ ply > 0
    /\ is_check(game)
    /\ \E k \in 1..Len(last.result.moves) : is_capture(last.result.moves[k])

----------------------------------------------------------------------------
\* Games that start from positions Game::from_fen accepts with an en-passant
\* field whose target square d6 is occupied: by a white knight, by a black
\* knight. The pawn square d5 holds a black pawn, which is all from_fen asks.

InitAccepted ==
    /\ LET OwnPieceOnTargetFen ==
               <<"4","k","3","/","8","/","3","N","4","/","3","p","P","3","/","8","/","8",
                "/","8","/","4","K","3"," ","w"," ","-"," ","d","6">>
           EnemyPieceOnTargetFen ==
               <<"4","k","3","/","8","/","3","n","4","/","3","p","P","3","/","8","/","8",
                "/","8","/","4","K","3"," ","w"," ","-"," ","d","6">>
       IN  \E fen \in {OwnPieceOnTargetFen, EnemyPieceOnTargetFen, EnPassantFen} :
               from_fen(fen).status = "Ok" /\ game = from_fen(fen).game
    /\ last = NoLast
    /\ ply = 0
    /\ pc = "idle"
    /\ perft = NoPerft

SpecAccepted == InitAccepted /\ [][Next]_vars

\* C30: of the moves gen_moves and gen_all_moves return, a Quiet, a
\* QuietPromotion and a Castle land on empty squares, a Capture and a
\* CapturePromotion have a capture square that holds a piece of the colour not
\* to move, none has a to square that holds a piece of the colour to move, and
\* gen_all_moves returns no two moves with the same from, to and promotion.
C30_WellFormedMoves ==
    pc = "generated" =>
        LET moves == last.result.moves
            promotion(m) == IF m.type \in {"QuietPromotion", "CapturePromotion"}
                            THEN m.promotion ELSE "none"
        IN  /\ \A k \in 1..Len(moves) :
                  LET m == moves[k]
                      at_to == get_tile(game.board, m.to[1], m.to[2])
                  IN  /\ m.type \in {"Quiet", "QuietPromotion", "Castle"} => is_none(at_to)
                      /\ m.type = "Castle" =>
                            is_none(get_tile(game.board, m.rook_to[1], m.rook_to[2]))
                      /\ m.type \in {"Capture", "CapturePromotion"} =>
                            LET victim == get_tile(game.board, m.capture[1], m.capture[2])
                            IN  is_some(victim) /\ victim.color = opposite(game.turn)
                      /\ ~(is_some(at_to) /\ at_to.color = game.turn)
            /\ last.op = "gen_all_moves" =>
                  \A k \in 1..Len(moves), j \in 1..Len(moves) :
                      (k # j /\ moves[k].from = moves[j].from /\ moves[k].to = moves[j].to)
                          => promotion(moves[k]) # promotion(moves[j])

====
